---- MODULE Spec2Model ----
(***************************************************************************)
(* AiXopenscad: the chat pipeline of the application shell (App), the AI   *)
(* orchestration service (AIService), the compilation service              *)
(* (OpenSCADService) and the geometry validator (GeometryValidator).      *)
(*                                                                         *)
(* A source text is a sequence of lines, a line a sequence of lexical      *)
(* fragments; a regular expression or an includes() of the code is the     *)
(* set of fragments it matches.  A log text is the sequence of stderr      *)
(* lines that join('\n') glues together.                                   *)
(***************************************************************************)
EXTENDS Integers, Sequences, FiniteSets, TLC

\* ------------------------------------------------------------------ values

\* An optional value: <<>> is JavaScript's undefined/null, <<x>> is x.
None == <<>>
Some(x) == <<x>>
IsSome(o) == Len(o) = 1
Get(o) == o[1]

\* ------------------------------------------------------------ source texts

\* App.jsx line 20: the buffer the editor starts with.
WelcomeCode ==
  << <<"module example() {">>, <<"difference() {">>, <<"cube(10, center=true);">>,
     <<"sphere(r=7);">>, <<"}">>, <<"}">>, <<"example();">> >>

\* A difference with an epsilon definition and an epsilon use.
EpsCode ==
  << <<"eps = 0.01;">>,
     <<"difference() {", "cube(10);", "translate([0,0,-eps])", "cube(10);", "}">> >>

\* A source with no boolean operation.
PlainCode == << <<"cube(10);">> >>

\* A difference without epsilon and a dimension below 0.01.
TinyCode == << <<"difference() {", "cube(0.001);", "}">> >>

\* The sources a model reply may carry.
ModelCodes == {EpsCode, TinyCode}

\* Every source the system handles.
Sources == {WelcomeCode, PlainCode} \cup ModelCodes

\* The fragments of a source, over all its lines.
Fragments(code) == UNION {{code[i][j] : j \in DOMAIN code[i]} : i \in DOMAIN code}

\* ------------------------------------------------------- GeometryValidator

\* /eps\s*=\s*[\d.]+\s*;/
EpsDefinitionFragments == {"eps = 0.01;", "steps = 5;"}
\* /difference\s*\(\s*\)\s*\{/g
DifferenceFragments == {"difference() {"}
\* /translate\s*\(\s*\[[^\]]*-eps[^\]]*\]\s*\)/
EpsUsageFragments == {"translate([0,0,-eps])"}
\* numbers n with 0 < n < 0.01, and numbers n > 10000
TooSmallFragments == {"cube(0.001);"}
TooLargeFragments == {"cube(20000);"}
\* line.includes(`${op}(`) for op of difference, union, intersection
BooleanOps == <<"difference", "union", "intersection">>
OpFragments(op) ==
  CASE op = "difference" -> {"difference() {"}
    [] op = "union" -> {"union() {", "union() cube(10);"}
    [] op = "intersection" -> {"intersection() {"}
\* the fragments that hold one closing brace
ClosingBraceFragments == {"}"}
\* \b(circle|square|polygon|text)\s*\(
TwoDFragments == {"circle(r=5);"}
\* \b(cube|cylinder|sphere|cyl|cuboid|torus|rect_tube|tube)\s*\(
ThreeDFragments == {"cube(10);", "cube(10, center=true);", "sphere(r=7);",
                    "cube(0.001);", "cube(20000);", "union() cube(10);"}
\* \b(linear_extrude|rotate_extrude)\b
ExtrusionFragments == {"linear_extrude(height=10)"}
\* /linear_extrude\s*\([^)]*\)\s*\{\s*;\s*\}/
EmptyExtrusionFragments == {"linear_extrude(height=10) { ; }"}
\* cylinder(...) or sphere(...) whose argument list holds no $fn=
CurveWithoutFn(op) ==
  CASE op = "cylinder" -> {"cylinder(h=10, r=2);"}
    [] op = "sphere" -> {"sphere(r=7);"}

Matches(code, frags) == Fragments(code) \cap frags # {}

checkEpsilonUsage(code) ==
  LET hasEpsDefinition == Matches(code, EpsDefinitionFragments)
      differences == Matches(code, DifferenceFragments)
      hasEpsUsage == Matches(code, EpsUsageFragments)
  IN IF differences
       THEN IF ~hasEpsDefinition
              THEN [valid |-> FALSE, errors |-> <<"MISSING_EPSILON_DEFINITION">>,
                    warnings |-> <<>>]
              ELSE [valid |-> TRUE, errors |-> <<>>,
                    warnings |-> IF hasEpsUsage THEN <<>> ELSE <<"EPSILON_NOT_USED">>]
       ELSE [valid |-> TRUE, errors |-> <<>>, warnings |-> <<>>]

checkDimensions(code) ==
  (IF Matches(code, TooSmallFragments) THEN <<"DIMENSION_TOO_SMALL">> ELSE <<>>)
  \o (IF Matches(code, TooLargeFragments) THEN <<"DIMENSION_TOO_LARGE">> ELSE <<>>)

\* The number of closing braces of a line.
RECURSIVE ClosingBraces(_)
ClosingBraces(line) ==
  IF line = <<>> THEN 0
  ELSE (IF Head(line) \in ClosingBraceFragments THEN 1 ELSE 0) + ClosingBraces(Tail(line))

\* The number of boolean operators named on a line (each counted once).
OpsOnLine(line) ==
  Cardinality({k \in DOMAIN BooleanOps :
                 \E j \in DOMAIN line : line[j] \in OpFragments(BooleanOps[k])})

Max(a, b) == IF a >= b THEN a ELSE b
Min(a, b) == IF a <= b THEN a ELSE b

\* maxDepth of checkBooleanNesting after the lines from i on, from
\* currentDepth cur and maxDepth mx.
RECURSIVE NestingFrom(_, _, _, _)
NestingFrom(code, i, cur, mx) ==
  IF i > Len(code) THEN mx
  ELSE LET opened == cur + OpsOnLine(code[i])
       IN NestingFrom(code, i + 1, Max(0, opened - ClosingBraces(code[i])),
                      Max(mx, opened))

\* The depth above which checkBooleanNesting warns.
MaxNestingDepth == 3

checkBooleanNesting(code) ==
  IF NestingFrom(code, 1, 0, 0) > MaxNestingDepth
    THEN <<"DEEP_BOOLEAN_NESTING">> ELSE <<>>

checkFnSpecification(code) ==
  (IF Matches(code, CurveWithoutFn("cylinder")) THEN <<"MISSING_FN">> ELSE <<>>)
  \o (IF Matches(code, CurveWithoutFn("sphere")) THEN <<"MISSING_FN">> ELSE <<>>)

checkDimensionality(code) ==
  (IF /\ Matches(code, TwoDFragments)
      /\ Matches(code, ThreeDFragments)
      /\ ~Matches(code, ExtrusionFragments \cup EmptyExtrusionFragments)
     THEN <<"DIMENSIONALITY_MIXING">> ELSE <<>>)
  \o (IF Matches(code, EmptyExtrusionFragments) THEN <<"EMPTY_EXTRUSION">> ELSE <<>>)

validate(code) ==
  LET epsCheck == checkEpsilonUsage(code)
  IN [valid |-> epsCheck.valid,
      errors |-> epsCheck.errors,
      warnings |-> epsCheck.warnings \o checkDimensions(code)
                     \o checkBooleanNesting(code) \o checkFnSpecification(code)
                     \o checkDimensionality(code)]

\* ------------------------------------------------------------- log texts

\* A text (a joined log, a message) is falsy in JavaScript when it is "".
TextEmpty(t) == \A i \in DOMAIN t : t[i] = ""
\* a in place of a || b
OrTextFirst(a, b) == a
\* a || b on texts
OrText(a, b) == IF TextEmpty(a) THEN b ELSE a

\* The stderr lines the compiler prints in the model.
SyntaxLine == "ERROR: Parser error: syntax error in file input.scad, line 3"
CgalLine == "ERROR: CGAL error: assertion violation!"
EmptyTopLine == "Current top level object is empty."

\* Further lines of a compiler log: one for each other trigger phrase, one
\* with two phrases, and lines with none.
HandleLine == "assertion: e_below != SHalfedge_handle()"
NonManifoldLine == "WARNING: Object may not be a valid 2-manifold (non-manifold edges)"
NonManifoldCapLine == "Non-manifold mesh created"
UpperManifoldLine == "NON-MANIFOLD"
ParseLine == "Parse error in line 2"
UndefinedLine == "WARNING: Ignoring undefined variable 'eps'"
UnknownLine == "WARNING: Ignoring unknown variable 'w'"
IncludeLine == "WARNING: Can't open include file 'BOSL2/std.scad'."
NoFileLine == "No such file or directory"
ScalingLine == "WARNING: Scaling a 2D object with 0 - removing object"
ExtrusionLine == "WARNING: Empty extrusion"
SyntaxUnknownLine == "ERROR: syntax error near unknown variable"
PlainLine == "Geometries in cache: 4"

\* The trigger phrases of categorizeError that occur in a line.
PhrasesOf(line) ==
  CASE line = SyntaxLine -> {"syntax error"}
    [] line = CgalLine -> {"CGAL error: assertion violation"}
    [] line = EmptyTopLine -> {"Current top level object is empty"}
    [] line = HandleLine -> {"e_below != SHalfedge_handle()"}
    [] line = NonManifoldLine -> {"non-manifold"}
    [] line = NonManifoldCapLine -> {"Non-manifold"}
    [] line = ParseLine -> {"Parse error"}
    [] line = UndefinedLine -> {"undefined variable"}
    [] line = UnknownLine -> {"unknown variable"}
    [] line = IncludeLine -> {"Can't open include file"}
    [] line = NoFileLine -> {"No such file"}
    [] line = ScalingLine -> {"Scaling a 2D object with 0"}
    [] line = ExtrusionLine -> {"Empty extrusion"}
    [] line = SyntaxUnknownLine -> {"syntax error", "unknown variable"}
    [] OTHER -> {}

\* errorLog.includes(phrase): the phrases hold no line break.
Includes(errorLog, phrase) == \E i \in DOMAIN errorLog : phrase \in PhrasesOf(errorLog[i])

\* A classifier that looks for a syntax error before anything else.
categorizeErrorSyntaxFirst(errorLog) ==
  IF TextEmpty(errorLog) THEN "UNKNOWN"
  ELSE IF Includes(errorLog, "syntax error") \/ Includes(errorLog, "Parse error")
    THEN "SYNTAX_ERROR"
  ELSE IF \/ Includes(errorLog, "CGAL error: assertion violation")
          \/ Includes(errorLog, "e_below != SHalfedge_handle()")
    THEN "CGAL_ASSERTION_VIOLATION"
  ELSE IF Includes(errorLog, "Current top level object is empty")
    THEN "EMPTY_GEOMETRY"
  ELSE "GENERAL_ERROR"

\* OpenSCADService.categorizeError of SupabaseService.js, lines 292-332.
categorizeError(errorLog) ==
  IF TextEmpty(errorLog) THEN "UNKNOWN"
  ELSE IF \/ Includes(errorLog, "CGAL error: assertion violation")
          \/ Includes(errorLog, "e_below != SHalfedge_handle()")
    THEN "CGAL_ASSERTION_VIOLATION"
  ELSE IF Includes(errorLog, "Current top level object is empty")
    THEN "EMPTY_GEOMETRY"
  ELSE IF Includes(errorLog, "non-manifold") \/ Includes(errorLog, "Non-manifold")
    THEN "NON_MANIFOLD"
  ELSE IF Includes(errorLog, "syntax error") \/ Includes(errorLog, "Parse error")
    THEN "SYNTAX_ERROR"
  ELSE IF Includes(errorLog, "undefined variable") \/ Includes(errorLog, "unknown variable")
    THEN "UNDEFINED_VARIABLE"
  ELSE IF Includes(errorLog, "Can't open include file") \/ Includes(errorLog, "No such file")
    THEN "FILE_NOT_FOUND"
  ELSE IF \/ Includes(errorLog, "Scaling a 2D object with 0")
          \/ Includes(errorLog, "Empty extrusion")
    THEN "DIMENSIONALITY_MIXING"
  ELSE "GENERAL_ERROR"

\* OpenSCADService.categorizeError of the other file, part_005 lines 122-157.
categorizeErrorSimple(errorLog) ==
  IF TextEmpty(errorLog) THEN "UNKNOWN"
  ELSE IF \/ Includes(errorLog, "CGAL error: assertion violation")
          \/ Includes(errorLog, "e_below != SHalfedge_handle()")
    THEN "CGAL_ASSERTION_VIOLATION"
  ELSE IF Includes(errorLog, "Current top level object is empty")
    THEN "EMPTY_GEOMETRY"
  ELSE IF Includes(errorLog, "non-manifold") \/ Includes(errorLog, "Non-manifold")
    THEN "NON_MANIFOLD"
  ELSE IF Includes(errorLog, "syntax error") \/ Includes(errorLog, "Parse error")
    THEN "SYNTAX_ERROR"
  ELSE IF Includes(errorLog, "undefined variable") \/ Includes(errorLog, "unknown variable")
    THEN "UNDEFINED_VARIABLE"
  ELSE IF Includes(errorLog, "Can't open include file") \/ Includes(errorLog, "No such file")
    THEN "FILE_NOT_FOUND"
  ELSE "GENERAL_ERROR"

\* The first line of both: !errorLog holds for an absent log (None) and
\* for the empty text.
categorizeErrorOf(errorLog) ==
  IF IsSome(errorLog) THEN categorizeError(Get(errorLog)) ELSE "UNKNOWN"
categorizeErrorSimpleOf(errorLog) ==
  IF IsSome(errorLog) THEN categorizeErrorSimple(Get(errorLog)) ELSE "UNKNOWN"

\* --------------------------------------------------------- OpenSCADService

\* What one run of the compiler on an instance does: the exit signal of
\* callMain, any other failure of it, or a failing write or read of the
\* virtual file system; with the stderr lines printed and the message of
\* the exception.
Outcome(kind, stderr, message) == [kind |-> kind, stderr |-> stderr, message |-> message]
Outcomes ==
  { Outcome("exit0", <<>>, <<>>),
    Outcome("exitNonZero", <<>>, <<>>),
    Outcome("exitNonZero", <<CgalLine, SyntaxLine>>, <<>>),
    Outcome("otherFailure", <<>>, <<>>),
    Outcome("otherFailure", <<>>, <<"RuntimeError: unreachable">>),
    Outcome("writeFail", <<>>, <<"FS error">>),
    Outcome("readFail", <<>>, <<"FS error">>) }

\* callMain is reached unless the write of the source fails.
RunsCompiler(o) == o.kind # "writeFail"

NoOutcome == Outcome("none", <<>>, <<>>)

\* CompilationResult; an absent field is None.
Result(stl, err, type, status, logs, warns) ==
  [stlData |-> stl, error |-> err, errorType |-> type, status |-> status,
   logs |-> logs, validationWarnings |-> warns]

NoResult == Result(None, None, None, None, <<>>, None)

\* if (result.error)
HasError(result) == IsSome(result.error) /\ ~TextEmpty(Get(result.error))

\* The ghost count of compiler runs on one instance saturates here.
MaxInstanceRuns == 2

\* compile, lines 217-286: what it returns for outcome o of the instance.
compileResult(scadCode, o) ==
  LET validation == validate(scadCode)
      logs == o.stderr
  IN CASE o.kind = "exit0" ->
            Result(Some(scadCode), None, None, None, logs, Some(validation.warnings))
       [] o.kind = "exitNonZero" ->
            Result(None, Some(OrText(logs, <<"Unknown compilation error">>)),
                   Some(categorizeError(logs)), Some(1), logs,
                   Some(validation.warnings))
       [] o.kind = "otherFailure" ->
            Result(None, Some(OrText(o.message, <<"WASM Execution Error">>)),
                   None, None, logs, None)
       [] OTHER ->
            Result(None, Some(OrText(o.message, <<"General Compilation Failure">>)),
                   Some(categorizeError(logs)), None, logs,
                   Some(validation.warnings))

\* compile, lines 269 and 277: the outcomes after which isDirty is set.
marksDirty(o) == o.kind \in {"exit0", "writeFail", "readFail"}

\* --------------------------------------------------------------- AIService

\* { text, suggestedCode, metadata, error }; metadata is { name, ... }.
AIResponse(text, code, meta, err) ==
  [text |-> text, suggestedCode |-> code, metadata |-> meta, error |-> err]
NoResponse == AIResponse("", None, None, None)

\* A reply of the reasoning provider to a JSON-mode request: a transport
\* failure, a content that parses as JSON (description, openscad_code and
\* name present or not), or a content that does not (prose and a fenced
\* code block present or not).
Reply(kind, description, openscadCode, name) ==
  [kind |-> kind, description |-> description, code |-> openscadCode, name |-> name]
ReasoningReplies ==
  { Reply("transportError", None, None, None),
    Reply("json", Some("A box with a hole"), Some(EpsCode), Some("Box")),
    Reply("json", Some("A tiny cut"), Some(TinyCode), Some("Cut")),
    Reply("json", None, None, None),
    Reply("text", None, Some(EpsCode), None) }

\* _parseResponse, lines 612-649, of a content with no json block.
parseResponse(reply) ==
  IF reply.description = None /\ reply.code = None
    THEN AIResponse("No response from AI", None, None, None)
    ELSE AIResponse(IF IsSome(reply.description) THEN Get(reply.description)
                    ELSE "Code generated successfully.",
                    reply.code, None, None)

\* _sendOllamaMessage with isJson, lines 572-609 (and _sendGeminiMessage,
\* lines 524-554, which parses alike).
sendOllamaMessage(reply) ==
  CASE reply.kind = "transportError" ->
         AIResponse("Ollama Error: fetch failed", None, None, None)
    [] reply.kind = "json" ->
         AIResponse(IF IsSome(reply.description) THEN Get(reply.description)
                    ELSE "Generated successfully",
                    reply.code, Some([name |-> reply.name]), None)
    [] OTHER -> parseResponse(reply)

\* A reply to the lint request: a transport failure, a content that is not
\* JSON, or a JSON value: null (None) or an object with valid and error
\* present or not.
LintValue(valid, err) == Some([valid |-> valid, error |-> err])
LintReply(kind, value) == [kind |-> kind, value |-> value]
LintReplies ==
  { LintReply("transportError", None),
    LintReply("unparseable", None),
    LintReply("json", LintValue(Some(TRUE), None)),
    LintReply("json", LintValue(Some(FALSE), Some(<<"missing semicolon">>))),
    LintReply("json", LintValue(Some(FALSE), None)),
    LintReply("json", LintValue(None, None)),
    LintReply("json", None) }

\* The replies that are of the shape {valid: true} or {valid: false, error}.
WellFormedLint(reply) ==
  /\ reply.kind = "json"
  /\ reply.value \in {LintValue(Some(TRUE), None),
                      LintValue(Some(FALSE), Some(<<"missing semicolon">>))}

\* _lintCode, lines 456-468: the value it resolves to.
lintCode(reply) ==
  IF reply.kind = "json" THEN reply.value ELSE LintValue(Some(TRUE), None)

\* A fixCode that calls fixCode again when the lint of its code fails.
afterLintRefix(fn, lintResult) ==
  IF lintResult = None THEN "throw"
  ELSE IF Get(lintResult).valid = Some(TRUE) THEN "return"
  ELSE "fix"

\* lines 326-329 of sendMessage and 430-437 of fixCode: what the function
\* fn does with the lint result: "throw" (a TypeError on null), "return"
\* the model's response, or call "fix".
afterLint(fn, lintResult) ==
  IF lintResult = None THEN "throw"
  ELSE IF Get(lintResult).valid = Some(TRUE) THEN "return"
  ELSE IF fn = "sendMessage" THEN "fix" ELSE "return"

\* fixCode line 418: logs.substring(0, 100) needs logs to be a string.
fixCodeLogsOk(logs) == IsSome(logs)

\* The catch of sendMessage (line 335) and of fixCode (line 440).
caughtResponse(fn) ==
  IF fn = "sendMessage"
    THEN AIResponse("Error in generation", None, None, Some(<<"TypeError">>))
    ELSE AIResponse("Error in fix attempt", None, None, Some(<<"TypeError">>))

\* sendMessage line 246 and lines 317-321: of the context only currentCode
\* and screenshot are read; the images that the request carries.
sendMessageImages(context) ==
  IF IsSome(context.screenshot) THEN {Get(context.screenshot)} ELSE {}

\* ------------------------------------------------------------------- state

VARIABLES
  \* App (useState)
  code, isCompiling, lastOutput, screenshot, isTyping, pipelineStatus,
  messages, uploadedImage, activeChat, enableVisualQA,
  \* App: the pending screenshot timer of handleGenerate
  shotTimer,
  \* App: the locals of the runPipeline call in flight, and its position
  run, runsStarted,
  \* App: the loadChat call in flight
  load,
  \* AIService: the sendMessage or fixCode call in flight
  ai,
  \* OpenSCADService
  ready, isDirty, lastLogs, instanceRuns, compileCall,
  \* LocalDBService
  chatStore, msgStore, nextId,
  \* LocalDBService: the deleteChat transaction in flight, and how the last
  \* operation settled
  del, lastDb,
  \* LocalDBService: the knowledge store; App: isIndexing and the
  \* handleSyncRAG call in flight
  knowledge, isIndexing, sync,
  \* LoggingService: the ring this.logs, the item 'app_logs' of localStorage,
  \* and how many entries were logged since the ring was last empty and how
  \* many of them the last successful setItem covered
  logs, appLogs, logStats,
  \* a call of categorizeError: its argument and what the classifier of
  \* each file returns
  classify,
  \* a call of validate: its argument and its result
  check,
  \* RAGService: the search call in flight
  rag,
  \* ImageService: a resizeImage call, its image and its new dimensions
  resize,
  \* App: the pending timers of the Apply Code buttons, and the press whose
  \* handleGenerate call is in flight
  apply

appVars == <<code, isCompiling, lastOutput, screenshot, isTyping, pipelineStatus,
             messages, uploadedImage, activeChat, enableVisualQA, shotTimer>>
scadVars == <<ready, isDirty, lastLogs, instanceRuns, compileCall>>
dbVars == <<chatStore, msgStore, nextId>>
uiVars == <<apply>>
libVars == <<rag, resize, uiVars>>
svcVars == <<del, lastDb, knowledge, isIndexing, sync, logs, appLogs, logStats, classify, check,
            libVars>>
vars == <<appVars, run, runsStarted, load, ai, scadVars, dbVars, svcVars>>

\* The number of messages the user sends in a behaviour.
MaxRuns == 1

\* const maxAttempts = 3
maxAttempts == 3

\* What the user may type, and the drawing the user may attach.
Inputs == {"", "  ", "a box with a hole"}
Trim(text) == IF text \in {"", "  "} THEN "" ELSE text
Drawing == "drawing.jpg"
Shot == "viewport.jpg"

Callers == {"pipeline", "manual", "apply"}

\* A compile call: its position, its source, what the instance did, its
\* result, whether callMain was called, and whether the instance had run
\* the compiler before.
IdleCall == [pc |-> "idle", src |-> <<>>, outcome |-> NoOutcome, result |-> NoResult,
             invoked |-> FALSE, reused |-> FALSE]

IdleAI == [pc |-> "idle", op |-> "none", fn |-> "none", response |-> NoResponse,
           result |-> NoResponse, images |-> {},
           reasoningCalls |-> 0, lintCalls |-> 0, fixCalls |-> 0,
           genResponse |-> NoResponse, genLint |-> "none"]

IdleRun ==
  [pc |-> "idle", prompt |-> "", initialCode |-> <<>>, imageData |-> None,
   screenshot |-> None, activeChat |-> None, visualQA |-> FALSE,
   currentPipelineCode |-> <<>>, finalExplanation |-> <<"", "">>,
   attempts |-> 0, compilationSuccess |-> FALSE, modelMetadata |-> None,
   chatId |-> None, genImages |-> {},
   compiles |-> 0, compileErrors |-> 0, fixes |-> 0, fixGaveUp |-> FALSE,
   meshSeen |-> FALSE, compiled |-> {},
   codeSet |-> FALSE, aiMsgs |-> 0, threw |-> FALSE, dbFailed |-> FALSE,
   msgsBefore |-> 0, visualCalls |-> 0]

\* No loadChat call is in flight.
IdleLoad == [pc |-> "idle", chat |-> None]

\* A design of an earlier session that the local database may hold, and its
\* two stored messages.
OldChat == [id |-> 0, name |-> Some("Old Design"), description |-> Some("a gear")]
OldMessages ==
  << [id |-> 12, chat_id |-> 0, role |-> "user", suggestedCode |-> None,
      created_at |-> 1],
     [id |-> 11, chat_id |-> 0, role |-> "ai", suggestedCode |-> Some(EpsCode),
      created_at |-> 3] >>

\* A second design of an earlier session, stored between the messages of
\* the first.
OtherChat == [id |-> 9, name |-> Some("Bracket"), description |-> Some("a bracket")]
OtherMessages ==
  << [id |-> 13, chat_id |-> 9, role |-> "user", suggestedCode |-> None,
      created_at |-> 2],
     [id |-> 14, chat_id |-> 9, role |-> "ai", suggestedCode |-> Some(TinyCode),
      created_at |-> 4] >>
TwoChatMessages == <<OldMessages[1], OtherMessages[1], OldMessages[2], OtherMessages[2]>>

Greeting == [role |-> "ai", kind |-> "greeting", suggestedCode |-> None, image |-> None]

\* No deleteChat transaction is in flight.
IdleDelete == [pc |-> "idle", chatId |-> 0, activeChat |-> None,
               chats |-> {}, messages |-> <<>>]

\* No operation of LocalDBService has settled yet.
NoSettlement == [op |-> "none", settled |-> "none", data |-> FALSE, error |-> FALSE]

\* No handleSyncRAG call is in flight.
IdleSync == [pc |-> "idle", items |-> <<>>, iterable |-> FALSE, next |-> 1,
             failed |-> FALSE, fetched |-> FALSE, before |-> {}]

\* A chunk that an earlier sync has stored.
OldChunk ==
  [id |-> 41, content |-> "cuboid", source |-> "shapes3d.scad", embedding |-> <<1, 0>>]

\* The state after construction, but for the stores of the local database,
\* which outlive a session.
InitProgram ==
  /\ code = WelcomeCode
  /\ isCompiling = FALSE
  /\ lastOutput = None
  /\ screenshot = None
  /\ isTyping = FALSE
  /\ pipelineStatus = ""
  /\ messages = <<Greeting>>
  /\ uploadedImage = None
  /\ activeChat = None
  /\ enableVisualQA \in BOOLEAN
  /\ shotTimer = FALSE
  /\ run = IdleRun
  /\ runsStarted = 0
  /\ load = IdleLoad
  /\ ai = IdleAI
  /\ ready = FALSE
  /\ isDirty = FALSE
  /\ lastLogs = <<>>
  /\ instanceRuns = 0
  /\ compileCall = [c \in Callers |-> IdleCall]
  /\ nextId = 1
  /\ del = IdleDelete
  /\ lastDb = NoSettlement
  /\ isIndexing = FALSE
  /\ sync = IdleSync

\* A dimension is a number num / den with den > 0.
Ratio(num, den) == [num |-> num, den |-> den]

\* No resizeImage call is in flight.
IdleResize == [pc |-> "idle", imgWidth |-> 1, imgHeight |-> 1, maxWidth |-> 1,
               maxHeight |-> 1, width |-> Ratio(1, 1), height |-> Ratio(1, 1)]

\* No Apply Code timer is pending and no handleGenerate call of one is in
\* flight.
IdleApply == [timers |-> <<>>, pressed |-> None]

\* No search call is in flight.
IdleSearch == [pc |-> "idle", topK |-> 0, queryEmbedding |-> None, results |-> <<>>]

\* No call of validate on its own.
NoCheck == [pc |-> "idle", code |-> <<>>, result |-> validate(<<>>)]

\* No call of categorizeError on its own.
NoClassify == [pc |-> "idle", errorLog |-> None, kind |-> "", kindSimple |-> ""]

\* LoggingService after its constructor and loadFromStorage (part_004 lines
\* 6-10, 111-120, 235) with nothing under 'app_logs'.
NoLogs ==
  /\ rag = IdleSearch
  /\ resize = IdleResize
  /\ apply = IdleApply
  /\ classify = NoClassify
  /\ check = NoCheck
  /\ logs = <<>>
  /\ appLogs = None
  /\ logStats = [calls |-> 0, savedAt |-> 0, failures |-> 0]

Init ==
  /\ InitProgram
  /\ NoLogs
  /\ knowledge = {}
  /\ \/ chatStore = {} /\ msgStore = <<>>
     \/ chatStore = {OldChat} /\ msgStore = OldMessages

\* JavaScript runs a handler to its next await before anything else runs:
\* a user action starts only while the pipeline is suspended or idle.
AwaitPcs == {"idle", "generate", "compile", "fix", "settle", "visual",
             "createChat", "updateChat", "saveUser", "saveAi"}
Suspended == run.pc \in AwaitPcs

\* ------------------------------------------------ OpenSCADService.compile

\* A compile that would stop at a failed validation, with the findings as
\* its error.
validationBlocksInvalid(validation) == ~validation.valid

\* compile, lines 219-223: a failed validation is logged and compile goes
\* on to the compiler.
validationBlocks(validation) == FALSE

\* compile after init: lines 217-286 for outcome o on the instance, which
\* is fresh when init has just built it.
compileBody(c, scadCode, o, fresh) ==
  LET base == IF fresh THEN 0 ELSE instanceRuns
      validation == validate(scadCode)
  IN IF validationBlocks(validation)
       THEN /\ lastLogs' = <<>>
            /\ ready' = (fresh \/ ready)
            /\ isDirty' = (~fresh /\ isDirty)
            /\ instanceRuns' = base
            /\ compileCall' = [compileCall EXCEPT ![c] =
                 [pc |-> "returned", src |-> scadCode, outcome |-> o,
                  result |-> Result(None, Some(<<"Geometry validation failed">>),
                                    None, None, <<>>, Some(validation.warnings)),
                  invoked |-> FALSE, reused |-> FALSE]]
       ELSE /\ lastLogs' = o.stderr
            /\ ready' = (fresh \/ ready)
            /\ isDirty' = IF marksDirty(o) THEN TRUE ELSE (~fresh /\ isDirty)
            /\ instanceRuns' = IF RunsCompiler(o) THEN Min(base + 1, MaxInstanceRuns)
                                ELSE base
            /\ compileCall' = [compileCall EXCEPT ![c] =
                 [pc |-> "returned", src |-> scadCode, outcome |-> o,
                  result |-> compileResult(scadCode, o),
                  invoked |-> RunsCompiler(o),
                  reused |-> (RunsCompiler(o) /\ base > 0)]]

\* init, lines 108-138, is awaited when the service is not ready or dirty.
needsInit == ~ready \/ isDirty

\* compile up to its first suspension: lines 210-215, and the rest of it
\* when no init is due.
compileStart(c, scadCode) ==
  IF needsInit
    THEN /\ lastLogs' = <<>>
         /\ compileCall' = [compileCall EXCEPT ![c] =
              [IdleCall EXCEPT !.pc = "init", !.src = scadCode]]
         /\ UNCHANGED <<ready, isDirty, instanceRuns>>
    ELSE \E o \in Outcomes : compileBody(c, scadCode, o, FALSE)

\* init resolves: a fresh instance, ready and not dirty; compile goes on.
initDone(c) ==
  /\ Suspended
  /\ compileCall[c].pc = "init"
  /\ \E o \in Outcomes : compileBody(c, compileCall[c].src, o, TRUE)
  /\ UNCHANGED <<appVars, run, runsStarted, load, svcVars, ai, dbVars>>

\* init rejects (line 136): compile rejects, outside its try.
initFail(c) ==
  /\ Suspended
  /\ compileCall[c].pc = "init"
  /\ compileCall' = [compileCall EXCEPT ![c].pc = "threw"]
  /\ UNCHANGED <<ready, isDirty, lastLogs, instanceRuns>>
  /\ UNCHANGED <<appVars, run, runsStarted, load, svcVars, ai, dbVars>>

\* ------------------------------------------------------ App.handleGenerate

\* CodeEditor onChange: the user replaces the text of the editor.
editCode(text) ==
  /\ Suspended
  /\ code # text
  /\ code' = text
  /\ UNCHANGED <<isCompiling, lastOutput, screenshot, isTyping, pipelineStatus,
                 messages, uploadedImage, activeChat, enableVisualQA, shotTimer>>
  /\ UNCHANGED <<run, runsStarted, load, svcVars, ai, scadVars, dbVars>>

\* captureScreenshot: null while the renderer is not set up.
Captures == {None, Some(Shot)}

\* handleGenerate up to the await of compile (the button is disabled while
\* isCompiling).
handleGenerate ==
  /\ Suspended
  /\ ~isCompiling
  /\ compileCall["manual"].pc = "idle"
  /\ isCompiling' = TRUE
  /\ compileStart("manual", code)
  /\ UNCHANGED <<code, lastOutput, screenshot, isTyping, pipelineStatus, messages,
                 uploadedImage, activeChat, enableVisualQA, shotTimer>>
  /\ UNCHANGED <<run, runsStarted, load, svcVars, ai, dbVars>>

\* handleGenerate after the await: lines 291-301.
handleGenerateDone ==
  /\ Suspended
  /\ compileCall["manual"].pc \in {"returned", "threw"}
  /\ LET call == compileCall["manual"]
     IN /\ lastOutput' = IF call.pc = "returned" /\ IsSome(call.result.stlData)
                           THEN call.result.stlData ELSE lastOutput
        /\ shotTimer' = (shotTimer \/ call.pc = "returned")
  /\ isCompiling' = FALSE
  /\ compileCall' = [compileCall EXCEPT !["manual"] = IdleCall]
  /\ UNCHANGED <<code, screenshot, isTyping, pipelineStatus, messages,
                 uploadedImage, activeChat, enableVisualQA>>
  /\ UNCHANGED <<ready, isDirty, lastLogs, instanceRuns>>
  /\ UNCHANGED <<run, runsStarted, load, svcVars, ai, dbVars>>

\* The timer of lines 294-296 fires.
screenshotTimer ==
  /\ Suspended
  /\ shotTimer
  /\ shotTimer' = FALSE
  /\ \E shot \in Captures : screenshot' = shot
  /\ UNCHANGED <<code, isCompiling, lastOutput, isTyping, pipelineStatus, messages,
                 uploadedImage, activeChat, enableVisualQA>>
  /\ UNCHANGED <<run, runsStarted, load, svcVars, ai, scadVars, dbVars>>

\* ---------------------------------------------------- App image handlers

\* handleImageSelect: a file that validateImage and prepareForVision accept
\* becomes the pending attachment (a rejected file changes nothing).  The
\* upload button is disabled while isTyping (line 487).
handleImageSelect ==
  /\ Suspended
  /\ ~isTyping
  /\ uploadedImage' = Some(Drawing)
  /\ uploadedImage' # uploadedImage
  /\ UNCHANGED <<code, isCompiling, lastOutput, screenshot, isTyping, pipelineStatus,
                 messages, activeChat, enableVisualQA, shotTimer>>
  /\ UNCHANGED <<run, runsStarted, load, svcVars, ai, scadVars, dbVars>>

handleRemoveImage ==
  /\ Suspended
  /\ uploadedImage # None
  /\ uploadedImage' = None
  /\ UNCHANGED <<code, isCompiling, lastOutput, screenshot, isTyping, pipelineStatus,
                 messages, activeChat, enableVisualQA, shotTimer>>
  /\ UNCHANGED <<run, runsStarted, load, svcVars, ai, scadVars, dbVars>>

\* ------------------------------------------------------------ App.loadChat

\* loadChat, lines 349-353, up to the await of getMessages: a click on an
\* item of the history, which nothing disables (line 513).
loadChatCall(chat) ==
  /\ Suspended
  /\ load.pc = "idle"
  /\ activeChat' = Some(chat)
  /\ isTyping' = TRUE
  /\ load' = [pc |-> "getMessages", chat |-> Some(chat)]
  /\ UNCHANGED <<code, isCompiling, lastOutput, screenshot, pipelineStatus,
                 messages, uploadedImage, enableVisualQA, shotTimer>>
  /\ UNCHANGED <<run, runsStarted, ai, scadVars, dbVars, svcVars>>

\* The user opens a stored design between two runs.
loadChat(chat) ==
  /\ run.pc = "idle"
  /\ loadChatCall(chat)

\* getMessages line 150: the stable sort by created_at of what getAll on
\* the chat_id index returns, which is in the order of the primary keys.
listedBefore(a, b) ==
  \/ a.created_at < b.created_at
  \/ a.created_at = b.created_at /\ a.id < b.id

\* LocalDBService.getMessages, lines 141-155: the messages of one chat,
\* sorted.
getMessages(chatId) ==
  LET owned == {msgStore[i] : i \in {j \in DOMAIN msgStore : msgStore[j].chat_id = chatId}}
  IN [k \in 1..Cardinality(owned) |->
        CHOOSE m \in owned : Cardinality({x \in owned : listedBefore(x, m)}) = k - 1]

\* loadChat lines 355-360.
formatMessages(data) ==
  [i \in DOMAIN data |->
     [role |-> data[i].role, kind |-> "stored",
      suggestedCode |-> data[i].suggestedCode, image |-> None]]

\* The last message with code, lines 364-365: its index, or 0.
lastAiMsg(formattedMessages) ==
  LET withCode == {i \in DOMAIN formattedMessages :
                     IsSome(formattedMessages[i].suggestedCode)}
  IN IF withCode = {} THEN 0
     ELSE CHOOSE i \in withCode : \A j \in withCode : j <= i

\* loadChat, lines 354-368: getMessages has resolved, or it has rejected
\* and loadChat ends there, its indicator still set.  The read waits for a
\* deleteChat transaction in flight, whose scope holds the messages store.
loadChatDone(ok) ==
  /\ load.pc = "getMessages"
  /\ del.pc = "idle"
  /\ load' = IdleLoad
  /\ IF ok
       THEN LET formattedMessages == formatMessages(getMessages(Get(load.chat).id))
                last == lastAiMsg(formattedMessages)
            IN /\ messages' = formattedMessages
               /\ code' = IF last > 0 THEN Get(formattedMessages[last].suggestedCode)
                          ELSE code
               /\ isTyping' = FALSE
       ELSE UNCHANGED <<messages, code, isTyping>>
  /\ UNCHANGED <<isCompiling, lastOutput, screenshot, pipelineStatus,
                 uploadedImage, activeChat, enableVisualQA, shotTimer>>
  /\ UNCHANGED <<run, runsStarted, ai, scadVars, dbVars, svcVars>>

\* ------------------------------------------- App.deleteChatHistory

\* How an operation of LocalDBService settles: it resolves or rejects, with
\* an object that has a data key or none and an error that is set or null.
settle(op, ok) ==
  [op |-> op, settled |-> IF ok THEN "resolved" ELSE "rejected",
   data |-> op \notin {"deleteChat", "clearKnowledge"}, error |-> ~ok]

\* A store whose other readers see the writes of a transaction at once.
storeDuringUncommitted(committed, working) == working

\* IndexedDB: what the other operations read of a store while a readwrite
\* transaction on it (deleteChat, lines 115-134) is in flight.
storeDuring(committed, working) == committed

\* setMessages of startNewChat, line 344.
ReadyMessage == [role |-> "ai", kind |-> "ready", suggestedCode |-> None, image |-> None]
\* setCode of startNewChat, line 345.
NewProjectCode == << <<"// New Project">> >>

\* deleteChatHistory, lines 371-374, once the user has confirmed, and
\* deleteChat, lines 112-124: the transaction opens, deletes the chat and
\* opens the cursor over the messages of the chat.  The transaction starts
\* once the read of a loadChat in flight, created before it, has finished.
deleteChatHistory(chatId) ==
  /\ Suspended
  /\ del.pc = "idle"
  /\ load.pc = "idle"
  /\ del' = [pc |-> "cursor", chatId |-> chatId, activeChat |-> activeChat,
             chats |-> {chat \in chatStore : chat.id # chatId},
             messages |-> msgStore]
  /\ chatStore' = storeDuring(chatStore, del'.chats)
  /\ msgStore' = storeDuring(msgStore, del'.messages)
  /\ UNCHANGED <<appVars, run, runsStarted, load, ai, scadVars, nextId, lastDb,
                 knowledge, isIndexing, sync, logs, appLogs, logStats, classify, check>>
  /\ UNCHANGED libVars

\* The index of the first message of the chat, or 0.
cursorAt(stored, chatId) ==
  LET owned == {i \in DOMAIN stored : stored[i].chat_id = chatId}
  IN IF owned = {} THEN 0 ELSE CHOOSE i \in owned : \A j \in owned : i <= j

\* A sequence without its i-th element.
RemoveAt(seq, i) == [j \in 1..(Len(seq) - 1) |-> IF j < i THEN seq[j] ELSE seq[j + 1]]

\* deleteChat, lines 126-131: the cursor deletes one message and goes on,
\* or it has reached the end.
deleteCursor ==
  /\ del.pc = "cursor"
  /\ LET i == cursorAt(del.messages, del.chatId)
     IN del' = IF i > 0 THEN [del EXCEPT !.messages = RemoveAt(@, i)]
               ELSE [del EXCEPT !.pc = "complete"]
  /\ chatStore' = storeDuring(chatStore, del'.chats)
  /\ msgStore' = storeDuring(msgStore, del'.messages)
  /\ UNCHANGED <<appVars, run, runsStarted, load, ai, scadVars, nextId, lastDb,
                 knowledge, isIndexing, sync, logs, appLogs, logStats, classify, check>>
  /\ UNCHANGED libVars

\* deleteChat line 133: the transaction completes and deleteChat resolves;
\* deleteChatHistory lines 375-376 with the activeChat of its closure, and
\* startNewChat, lines 342-347.
deleteComplete ==
  /\ del.pc = "complete"
  /\ chatStore' = del.chats
  /\ msgStore' = del.messages
  /\ lastDb' = settle("deleteChat", TRUE)
  /\ del' = IdleDelete
  /\ IF IsSome(del.activeChat) /\ Get(del.activeChat).id = del.chatId
       THEN /\ activeChat' = None
            /\ messages' = <<ReadyMessage>>
            /\ code' = NewProjectCode
            /\ lastOutput' = None
       ELSE UNCHANGED <<activeChat, messages, code, lastOutput>>
  /\ UNCHANGED <<isCompiling, screenshot, isTyping, pipelineStatus, uploadedImage,
                 enableVisualQA, shotTimer>>
  /\ UNCHANGED <<run, runsStarted, load, ai, scadVars, nextId, knowledge, isIndexing, sync, logs, appLogs, logStats, classify, check>>
  /\ UNCHANGED libVars

\* deleteChat line 134: the transaction fails and is rolled back;
\* deleteChat rejects and deleteChatHistory ends there.
deleteError ==
  /\ del.pc \in {"cursor", "complete"}
  /\ lastDb' = settle("deleteChat", FALSE)
  /\ del' = IdleDelete
  /\ UNCHANGED <<appVars, run, runsStarted, load, ai, scadVars, dbVars,
                 knowledge, isIndexing, sync, logs, appLogs, logStats, classify, check>>
  /\ UNCHANGED libVars

\* ----------------------------------------------------------- LoggingService

\* this.maxLogs (line 8) and the size of the persisted snapshot (line 101).
maxLogs == 1000
snapshotSize == 100

\* Bounds of the exploration: log calls since the ring was last empty, and
\* setItem calls that throw.
MaxLogCalls == 1002
MaxQuotaFailures == 2

\* Array.prototype.slice(-k): the last k elements, all of them when there
\* are fewer.
sliceFirst(s, k) == SubSeq(s, 1, Min(k, Len(s)))
slice(s, k) == SubSeq(s, Len(s) - Min(k, Len(s)) + 1, Len(s))

\* log, lines 15-38.  The entry is named by its number among the entries
\* logged since the ring was last empty.  _saveToStorage (lines 98-106)
\* stores the last 100 entries, and catches a setItem that throws.
log(stored) ==
  /\ logStats.calls < MaxLogCalls
  /\ ~stored => logStats.failures < MaxQuotaFailures
  /\ LET entry == logStats.calls + 1
         pushed == Append(logs, entry)
         ring == IF Len(pushed) > maxLogs THEN slice(pushed, maxLogs) ELSE pushed
     IN /\ logs' = ring
        /\ appLogs' = IF stored THEN Some(slice(ring, snapshotSize)) ELSE appLogs
        /\ logStats' = [calls |-> entry,
                        savedAt |-> IF stored THEN entry ELSE logStats.savedAt,
                        failures |-> IF stored THEN logStats.failures
                                     ELSE logStats.failures + 1]
  /\ UNCHANGED <<appVars, run, runsStarted, load, ai, scadVars, dbVars>>
  /\ UNCHANGED <<del, lastDb, knowledge, isIndexing, sync, classify, check>>
  /\ UNCHANGED libVars

\* clearLogs, lines 139-142.
clearLogs ==
  /\ logs' = <<>>
  /\ appLogs' = None
  /\ logStats' = [logStats EXCEPT !.calls = 0, !.savedAt = 0]
  /\ UNCHANGED <<appVars, run, runsStarted, load, ai, scadVars, dbVars>>
  /\ UNCHANGED <<del, lastDb, knowledge, isIndexing, sync, classify, check>>
  /\ UNCHANGED libVars

\* ------------------------------------------------------ App.handleSyncRAG

\* A record of the index file: { content, embedding, metadata }, with the
\* source of its metadata, None where the record has no metadata.
IndexRecord(content, source, embedding) ==
  [content |-> content, source |-> source, embedding |-> embedding]

\* The keys uuidv4 draws from (LocalDBService line 195), and the least key
\* that no chunk of the store or of the store before the sync holds.
ChunkKeys == 41..47
FreshKey(stored, before) ==
  LET free == ChunkKeys \ ({c.id : c \in stored} \cup {c.id : c \in before})
  IN CHOOSE k \in free : \A other \in free : k <= other

\* What the fetch of /bosl2_index.json brings: a network failure, a status
\* that is not ok, a body that is not JSON, a JSON value that is no array,
\* or an array of records (empty, or with the same record twice).
IndexReply(kind, items) == [kind |-> kind, items |-> items]
IndexReplies ==
  { IndexReply("networkError", <<>>),
    IndexReply("notOk", <<>>),
    IndexReply("unparseable", <<>>),
    IndexReply("object", <<>>),
    IndexReply("array", <<>>),
    IndexReply("array", <<IndexRecord("cyl", Some("shapes3d.scad"), <<2, 0>>)>>),
    IndexReply("array", <<IndexRecord("cyl", Some("shapes3d.scad"), <<2, 0>>),
                          IndexRecord("diff", None, <<0, 1>>),
                          IndexRecord("cyl", Some("shapes3d.scad"), <<2, 0>>)>>) }

\* A sync that clears the store whatever the fetch brought.
fetchedAlways(reply) == TRUE

\* Lines 322-325: the fetch resolved with an ok status and response.json()
\* parsed the body; otherwise the handler is in its catch.
fetched(reply) == reply.kind \in {"object", "array"}

\* handleSyncRAG, lines 316-322, up to the await of fetch.  The button is
\* disabled while isIndexing (line 601).
handleSyncRAG ==
  /\ Suspended
  /\ ~isIndexing
  /\ sync.pc = "idle"
  /\ isIndexing' = TRUE
  /\ pipelineStatus' = "Syncing Knowledge Base..."
  /\ sync' = [IdleSync EXCEPT !.pc = "fetch", !.before = knowledge]
  /\ UNCHANGED <<code, isCompiling, lastOutput, screenshot, isTyping, messages,
                 uploadedImage, activeChat, enableVisualQA, shotTimer>>
  /\ UNCHANGED <<run, runsStarted, load, ai, scadVars, dbVars, del, lastDb, knowledge>>
  /\ UNCHANGED <<logs, appLogs, logStats, classify, check>>
  /\ UNCHANGED libVars

\* Lines 322-326: the fetch and the parse have settled; clearKnowledge is
\* called, or the catch of line 333 is entered.
fetchIndexDone(reply) ==
  /\ sync.pc = "fetch"
  /\ sync' = IF fetched(reply)
               THEN [sync EXCEPT !.pc = "clear", !.items = reply.items,
                                 !.iterable = (reply.kind = "array"),
                                 !.fetched = (reply.kind \in {"object", "array"})]
               ELSE [sync EXCEPT !.pc = "finally", !.failed = TRUE]
  /\ UNCHANGED <<appVars, run, runsStarted, load, ai, scadVars, dbVars, del, lastDb,
                 knowledge, isIndexing>>
  /\ UNCHANGED <<logs, appLogs, logStats, classify, check>>
  /\ UNCHANGED libVars

\* Lines 326-328: clearKnowledge (LocalDBService lines 181-190) has emptied
\* the store, or it has rejected; the loop over the records starts, which
\* throws on a value that is not iterable.
clearKnowledgeDone(ok) ==
  /\ sync.pc = "clear"
  /\ lastDb' = settle("clearKnowledge", ok)
  /\ knowledge' = IF ok THEN {} ELSE knowledge
  /\ sync' = IF ok /\ sync.iterable
               THEN [sync EXCEPT !.pc = IF sync.items = <<>> THEN "finally" ELSE "save"]
               ELSE [sync EXCEPT !.pc = "finally", !.failed = TRUE]
  /\ UNCHANGED <<appVars, run, runsStarted, load, ai, scadVars, dbVars, del, isIndexing>>
  /\ UNCHANGED <<logs, appLogs, logStats, classify, check>>
  /\ UNCHANGED libVars

\* Lines 328-330: saveKnowledgeChunk (LocalDBService lines 192-210) has
\* stored the chunk of one record, or it has rejected.
saveKnowledgeChunkDone(ok) ==
  /\ sync.pc = "save"
  /\ lastDb' = settle("saveKnowledgeChunk", ok)
  /\ IF ok
       THEN LET item == sync.items[sync.next]
            IN /\ knowledge' = knowledge \cup
                      {[id |-> FreshKey(knowledge, sync.before),
                        content |-> item.content,
                        source |-> IF IsSome(item.source) THEN Get(item.source)
                                   ELSE "unknown",
                        embedding |-> item.embedding]}
               /\ sync' = [sync EXCEPT !.next = @ + 1,
                              !.pc = IF sync.next = Len(sync.items) THEN "finally"
                                     ELSE "save"]
       ELSE /\ sync' = [sync EXCEPT !.pc = "finally", !.failed = TRUE]
            /\ UNCHANGED knowledge
  /\ UNCHANGED <<appVars, run, runsStarted, load, ai, scadVars, dbVars, del, isIndexing>>
  /\ UNCHANGED <<logs, appLogs, logStats, classify, check>>
  /\ UNCHANGED libVars

\* Lines 332-338: the alert of the try block or of the catch, and the
\* finally.
syncFinally ==
  /\ sync.pc = "finally"
  /\ isIndexing' = FALSE
  /\ pipelineStatus' = ""
  /\ sync' = IdleSync
  /\ UNCHANGED <<code, isCompiling, lastOutput, screenshot, isTyping, messages,
                 uploadedImage, activeChat, enableVisualQA, shotTimer>>
  /\ UNCHANGED <<run, runsStarted, load, ai, scadVars, dbVars, del, lastDb, knowledge>>
  /\ UNCHANGED <<logs, appLogs, logStats, classify, check>>
  /\ UNCHANGED libVars

\* --------------------------------------------------------------- RAGService

\* A similarity is a number dot / (sqrt(normA) * sqrt(normB)), kept as its
\* three integers, or NaN.
NaN == [nan |-> TRUE, dot |-> 0, normA |-> 0, normB |-> 0]

\* The sum of vecA[i] * vecB[i] over the indices i..Len(vecA).
RECURSIVE DotFrom(_, _, _)
DotFrom(vecA, vecB, i) ==
  IF i > Len(vecA) THEN 0 ELSE vecA[i] * vecB[i] + DotFrom(vecA, vecB, i + 1)

\* cosineSimilarity, lines 18-28: the loop runs over the indices of vecA;
\* a vecB that is shorter gives undefined factors and NaN sums; norms of 0
\* give 0 / 0.
cosineSimilarity(vecA, vecB) ==
  IF Len(vecB) < Len(vecA) THEN NaN
  ELSE LET dotProduct == DotFrom(vecA, vecB, 1)
           normA == DotFrom(vecA, vecA, 1)
           normB == DotFrom(SubSeq(vecB, 1, Len(vecA)), SubSeq(vecB, 1, Len(vecA)), 1)
       IN IF normA * normB = 0 THEN NaN
          ELSE [nan |-> FALSE, dot |-> dotProduct, normA |-> normA, normB |-> normB]

\* x > y for two similarities to the same query, neither NaN.
Greater(x, y) ==
  IF x.dot >= 0 /\ y.dot < 0 THEN TRUE
  ELSE IF x.dot < 0 /\ y.dot >= 0 THEN FALSE
  ELSE IF x.dot >= 0 THEN x.dot * x.dot * y.normB > y.dot * y.dot * x.normB
  ELSE x.dot * x.dot * y.normB < y.dot * y.dot * x.normB

\* getAll of the knowledge store (LocalDBService lines 212-221): the chunks
\* in the order of their keys.
RECURSIVE getAllKnowledge(_)
getAllKnowledge(stored) ==
  IF stored = {} THEN <<>>
  ELSE LET first == CHOOSE c \in stored : \A d \in stored : c.id <= d.id
       IN <<first>> \o getAllKnowledge(stored \ {first})

\* A comparator that sorts ascending.
comesBeforeAscending(a, b) == Greater(b.similarity, a.similarity)

\* (a, b) => b.similarity - a.similarity is negative: a comes before b.
comesBefore(a, b) == Greater(a.similarity, b.similarity)

\* Array.prototype.sort with a consistent comparator is a stable sort: x
\* goes before the first element it comes before.
RECURSIVE InsertSorted(_, _)
InsertSorted(x, sorted) ==
  IF sorted = <<>> THEN <<x>>
  ELSE IF comesBefore(x, Head(sorted)) THEN <<x>> \o sorted
  ELSE <<Head(sorted)>> \o InsertSorted(x, Tail(sorted))
RECURSIVE SortFrom(_, _, _)
SortFrom(list, i, sorted) ==
  IF i > Len(list) THEN sorted
  ELSE SortFrom(list, i + 1, InsertSorted(list[i], sorted))

\* With a NaN among the similarities the comparator is not consistent and
\* the order is implementation-defined: any order of the elements.
Orders(list) ==
  IF \E i \in DOMAIN list : list[i].similarity.nan
    THEN {[i \in DOMAIN list |-> list[p[i]]] :
            p \in {q \in [DOMAIN list -> DOMAIN list] :
                     \A i, j \in DOMAIN list : i # j => q[i] # q[j]}}
    ELSE {SortFrom(list, 1, <<>>)}

\* The embeddings getEmbedding may return (lines 30-45): null after a
\* failed fetch, undefined from a reply without the field (both None), or
\* the vector of the reply, which may be empty.
QueryEmbeddings == {None, Some(<<>>), Some(<<1, 0>>), Some(<<1, 1>>), Some(<<-1, 1>>)}

MaxTopK == 3

\* search, lines 71-72, up to the await of getEmbedding.
search(topK) ==
  /\ rag.pc = "idle"
  /\ rag' = [IdleSearch EXCEPT !.pc = "embedding", !.topK = topK]
  /\ UNCHANGED <<appVars, run, runsStarted, load, ai, scadVars, dbVars>>
  /\ UNCHANGED <<del, lastDb, knowledge, isIndexing, sync, logs, appLogs, logStats,
                 classify, check, resize, uiVars>>

\* Lines 72-75: the embedding has come; an absent one ends the search with
\* an empty list (an empty vector is truthy).
getEmbeddingDone(embedding) ==
  /\ rag.pc = "embedding"
  /\ rag' = IF IsSome(embedding)
              THEN [rag EXCEPT !.pc = "getAll", !.queryEmbedding = embedding]
              ELSE [rag EXCEPT !.pc = "returned", !.results = <<>>]
  /\ UNCHANGED <<appVars, run, runsStarted, load, ai, scadVars, dbVars>>
  /\ UNCHANGED <<del, lastDb, knowledge, isIndexing, sync, logs, appLogs, logStats,
                 classify, check, resize, uiVars>>

\* Lines 75-86: getAllKnowledge has resolved or rejected; the chunks are
\* scored, sorted and cut to topK.
getAllKnowledgeDone(ok) ==
  /\ rag.pc = "getAll"
  /\ lastDb' = settle("getAllKnowledge", ok)
  /\ IF ~ok THEN rag' = [rag EXCEPT !.pc = "threw"]
     ELSE LET allKnowledge == getAllKnowledge(knowledge)
              results == [i \in DOMAIN allKnowledge |->
                            [chunk |-> allKnowledge[i],
                             similarity |-> cosineSimilarity(Get(rag.queryEmbedding),
                                                             allKnowledge[i].embedding)]]
          IN \E sorted \in Orders(results) :
               rag' = [rag EXCEPT !.pc = "returned",
                                  !.results = SubSeq(sorted, 1, Min(rag.topK, Len(sorted)))]
  /\ UNCHANGED <<appVars, run, runsStarted, load, ai, scadVars, dbVars>>
  /\ UNCHANGED <<del, knowledge, isIndexing, sync, logs, appLogs, logStats,
                 classify, check, resize, uiVars>>

\* ------------------------------------------------------------- ImageService

\* x <= y for two dimensions.
Leq(x, y) == x.num * y.den <= y.num * x.den

\* The sides of the images and the maxima of the exploration.
MaxSide == 6

\* resizeImage, lines 185-198: aspectRatio = width / height, and
\* maxWidth / aspectRatio = maxWidth * height / width.
newDimensions(imgWidth, imgHeight, maxWidth, maxHeight) ==
  IF imgWidth > maxWidth \/ imgHeight > maxHeight
    THEN IF imgWidth > imgHeight
           THEN [width |-> Ratio(maxWidth, 1),
                 height |-> Ratio(maxWidth * imgHeight, imgWidth)]
           ELSE [width |-> Ratio(maxHeight * imgWidth, imgHeight),
                 height |-> Ratio(maxHeight, 1)]
    ELSE [width |-> Ratio(imgWidth, 1), height |-> Ratio(imgHeight, 1)]

\* img.onload of resizeImage, lines 183-211.
resizeImage ==
  /\ resize.pc = "loaded"
  /\ LET dims == newDimensions(resize.imgWidth, resize.imgHeight,
                               resize.maxWidth, resize.maxHeight)
     IN resize' = [resize EXCEPT !.pc = "resolved", !.width = dims.width,
                                 !.height = dims.height]
  /\ UNCHANGED <<appVars, run, runsStarted, load, ai, scadVars, dbVars>>
  /\ UNCHANGED <<del, lastDb, knowledge, isIndexing, sync, logs, appLogs, logStats,
                 classify, check, rag, uiVars>>

\* ------------------------------------- App.handleSendMessage, runPipeline

\* aiService.sendMessage up to its request to the reasoning provider.
sendMessageCall(context) ==
  [IdleAI EXCEPT !.pc = "reason", !.op = "generate", !.fn = "sendMessage",
                 !.images = sendMessageImages(context), !.reasoningCalls = 1]

\* aiService.fixCode, called by the pipeline, up to its request.
fixCodeCall ==
  [IdleAI EXCEPT !.pc = "reason", !.op = "fix", !.fn = "fixCode",
                 !.reasoningCalls = 1, !.fixCalls = 1]

\* handleSendMessage, lines 268-284, and runPipeline, lines 107-124, up to
\* the await of sendMessage.  One run record: a second run starts once the
\* first has ended.
handleSendMessage(text) ==
  /\ run.pc = "idle"
  /\ runsStarted < MaxRuns
  /\ Trim(text) # ""
  /\ ~isTyping
  /\ uploadedImage' = None
  /\ messages' = Append(messages, [role |-> "user", kind |-> "user",
                                    suggestedCode |-> None, image |-> uploadedImage])
  /\ isTyping' = TRUE
  /\ pipelineStatus' = "Thinking..."
  /\ runsStarted' = runsStarted + 1
  /\ LET context == [currentCode |-> code, screenshot |-> screenshot,
                     imageData |-> uploadedImage]
     IN /\ run' = [IdleRun EXCEPT !.pc = "generate", !.prompt = text,
                      !.initialCode = code, !.imageData = uploadedImage,
                      !.screenshot = screenshot, !.activeChat = activeChat,
                      !.visualQA = enableVisualQA, !.currentPipelineCode = code,
                      !.genImages = sendMessageImages(context),
                      !.msgsBefore = Len(msgStore)]
        /\ ai' = sendMessageCall(context)
  /\ UNCHANGED <<code, isCompiling, lastOutput, screenshot, activeChat,
                 enableVisualQA, shotTimer>>
  /\ UNCHANGED <<load, svcVars, scadVars, dbVars>>

\* The reasoning provider replies to sendMessage or fixCode: lines 317-332
\* and 422-437 up to the lint request.
reasonReply(reply) ==
  /\ Suspended
  /\ ai.pc = "reason"
  /\ LET resp == sendOllamaMessage(reply)
         gen == IF ai.fn = "sendMessage" THEN resp ELSE ai.genResponse
     IN ai' = IF IsSome(resp.suggestedCode)
                THEN [ai EXCEPT !.pc = "lint", !.response = resp, !.lintCalls = @ + 1,
                                !.genResponse = gen]
                ELSE [ai EXCEPT !.pc = "done", !.response = resp, !.result = resp,
                                !.genResponse = gen]
  /\ UNCHANGED <<appVars, run, runsStarted, load, svcVars, scadVars, dbVars>>

\* The lint provider replies: _lintCode resolves, and sendMessage or
\* fixCode goes on to its return or to the request of the nested fixCode.
lintReply(reply) ==
  /\ Suspended
  /\ ai.pc = "lint"
  /\ LET lintResult == lintCode(reply)
         next == afterLint(ai.fn, lintResult)
         shape == IF ai.fn # "sendMessage" THEN ai.genLint
                  ELSE IF reply.kind # "json" THEN reply.kind
                  ELSE IF WellFormedLint(reply) THEN "wellFormed" ELSE "malformed"
     IN ai' =
          CASE next = "throw" ->
                 [ai EXCEPT !.pc = "done", !.result = caughtResponse(ai.fn),
                            !.genLint = shape]
            [] next = "return" ->
                 [ai EXCEPT !.pc = "done", !.result = ai.response, !.genLint = shape]
            [] OTHER ->
                 IF fixCodeLogsOk(Get(lintResult).error)
                   THEN [ai EXCEPT !.pc = "reason", !.fn = "fixCode", !.images = {},
                                   !.reasoningCalls = @ + 1, !.fixCalls = @ + 1,
                                   !.genLint = shape]
                   ELSE [ai EXCEPT !.pc = "done", !.result = caughtResponse(ai.fn),
                                   !.fixCalls = @ + 1, !.genLint = shape]
  /\ UNCHANGED <<appVars, run, runsStarted, load, svcVars, scadVars, dbVars>>

\* runPipeline, lines 126-128: sendMessage has resolved.
afterGenerate ==
  /\ run.pc = "generate"
  /\ ai.pc = "done"
  /\ run' = [run EXCEPT !.pc = "loop",
               !.currentPipelineCode =
                  IF IsSome(ai.result.suggestedCode) THEN Get(ai.result.suggestedCode)
                  ELSE @,
               !.finalExplanation = <<ai.result.text, "">>,
               !.modelMetadata = ai.result.metadata]
  /\ ai' = IdleAI
  /\ UNCHANGED <<appVars, runsStarted, load, svcVars, scadVars, dbVars>>

\* A loop that compares with <= and so runs once more.
loopGoesOnInclusive(attempts, compilationSuccess) ==
  attempts <= maxAttempts /\ ~compilationSuccess

\* while (attempts < maxAttempts && !compilationSuccess)
loopGoesOn(attempts, compilationSuccess) ==
  attempts < maxAttempts /\ ~compilationSuccess

\* The head of the compilation loop, lines 131-135, up to the await of
\* compile; or the exit of the loop.
loopHead ==
  /\ run.pc = "loop"
  /\ IF loopGoesOn(run.attempts, run.compilationSuccess)
       THEN /\ run' = [run EXCEPT !.pc = "compile", !.attempts = @ + 1,
                                   !.compiles = @ + 1,
                                   !.compiled = @ \cup {run.currentPipelineCode}]
            /\ pipelineStatus' = IF run.attempts + 1 > 1 THEN "Re-fixing..."
                                  ELSE "Compiling..."
            /\ compileCall["pipeline"].pc = "idle"
            /\ compileStart("pipeline", run.currentPipelineCode)
       ELSE /\ run' = [run EXCEPT !.pc = "afterLoop"]
            /\ UNCHANGED <<pipelineStatus, scadVars>>
  /\ UNCHANGED <<code, isCompiling, lastOutput, screenshot, isTyping, messages,
                 uploadedImage, activeChat, enableVisualQA, shotTimer>>
  /\ UNCHANGED <<runsStarted, load, svcVars, ai, dbVars>>

\* Lines 137-166: compile has resolved, with an error (fixCode is called)
\* or with a mesh; or it has rejected, which the catch of line 235 takes.
afterCompile ==
  /\ run.pc = "compile"
  /\ compileCall["pipeline"].pc \in {"returned", "threw"}
  /\ LET call == compileCall["pipeline"]
         result == call.result
     IN CASE call.pc = "threw" ->
               /\ run' = [run EXCEPT !.pc = "catch", !.threw = TRUE]
               /\ UNCHANGED <<pipelineStatus, lastOutput, ai>>
          [] call.pc = "returned" /\ HasError(result) ->
               /\ run' = [run EXCEPT !.pc = "fix", !.fixes = @ + 1,
                             !.compileErrors = @ + 1]
               /\ pipelineStatus' = "Fixing..."
               /\ ai' = fixCodeCall
               /\ UNCHANGED lastOutput
          [] OTHER ->
               /\ run' = [run EXCEPT !.pc = "loop", !.compilationSuccess = TRUE,
                             !.meshSeen = IsSome(result.stlData)]
               /\ lastOutput' = result.stlData
               /\ UNCHANGED <<pipelineStatus, ai>>
  /\ compileCall' = [compileCall EXCEPT !["pipeline"] = IdleCall]
  /\ UNCHANGED <<ready, isDirty, lastLogs, instanceRuns>>
  /\ UNCHANGED <<code, isCompiling, screenshot, isTyping, messages,
                 uploadedImage, activeChat, enableVisualQA, shotTimer>>
  /\ UNCHANGED <<runsStarted, load, svcVars, dbVars>>

\* A loop that goes on to its next attempt when the fix brought no code.
afterFixKeepsLooping(suggestedCode) == "loop"

\* Lines 158-162: with new code the loop goes on, with none it breaks.
afterFixPc(suggestedCode) == IF IsSome(suggestedCode) THEN "loop" ELSE "afterLoop"

\* Lines 158-162: fixCode has resolved.
afterFix ==
  /\ run.pc = "fix"
  /\ ai.pc = "done"
  /\ run' = [run EXCEPT
               !.pc = afterFixPc(ai.result.suggestedCode),
               !.currentPipelineCode =
                  IF IsSome(ai.result.suggestedCode) THEN Get(ai.result.suggestedCode)
                  ELSE @,
               !.fixGaveUp = ~IsSome(ai.result.suggestedCode)]
  /\ ai' = IdleAI
  /\ UNCHANGED <<appVars, runsStarted, load, svcVars, scadVars, dbVars>>

\* A pipeline that verifies visually whenever the option is set.
verifiesVisuallyAlways(compilationSuccess, visualQA) == visualQA

\* Line 170: if (compilationSuccess && config.enableVisualQA)
verifiesVisually(compilationSuccess, visualQA) == compilationSuccess /\ visualQA

\* Lines 170-186 up to the settle wait of line 172.
afterLoop ==
  /\ run.pc = "afterLoop"
  /\ IF verifiesVisually(run.compilationSuccess, run.visualQA)
       THEN /\ pipelineStatus' = "Verifying visually..."
            /\ run' = [run EXCEPT !.pc = "settle"]
       ELSE /\ UNCHANGED pipelineStatus
            /\ run' = [run EXCEPT !.pc = "finalSync",
                 !.finalExplanation =
                    IF ~run.compilationSuccess
                      THEN <<@[1], "(Note: I couldn't resolve all compilation errors after several attempts.)">>
                      ELSE @]
  /\ UNCHANGED <<code, isCompiling, lastOutput, screenshot, isTyping, messages,
                 uploadedImage, activeChat, enableVisualQA, shotTimer>>
  /\ UNCHANGED <<runsStarted, load, svcVars, ai, scadVars, dbVars>>

\* Lines 174-176: the wait is over, the viewer captures a screenshot and
\* analyzeVisuals sends its request to the vision provider.
settleDone ==
  /\ run.pc = "settle"
  /\ run' = [run EXCEPT !.pc = "visual", !.visualCalls = @ + 1]
  /\ UNCHANGED <<appVars, runsStarted, load, svcVars, ai, scadVars, dbVars>>

\* What the vision provider answers (a transport failure becomes a text).
VisualReplies == {"LOOKS GOOD", "The hole is missing", "Ollama Error: fetch failed"}
LooksGood(text) == text = "LOOKS GOOD"

\* Lines 178-182: analyzeVisuals has resolved.
afterVisual(text) ==
  /\ run.pc = "visual"
  /\ run' = [run EXCEPT !.pc = "finalSync",
               !.finalExplanation =
                  <<@[1], IF LooksGood(text) THEN "(Visual verification passed!)"
                          ELSE "(Visual QA noted some issues)">>]
  /\ UNCHANGED <<appVars, runsStarted, load, svcVars, ai, scadVars, dbVars>>

\* The positions of a run at which a transaction of its persistence is
\* pending.  Transactions with overlapping scopes run in the order of their
\* creation: the persistence steps below wait for a deleteChat transaction
\* in flight.
DbPcs == {"createChat", "updateChat", "saveUser", "saveAi"}

\* LocalDBService.saveMessage up to its transaction: what it will store.
StoredMessage(id, chatId, role, suggestedCode, createdAt) ==
  [id |-> id, chat_id |-> chatId, role |-> role, suggestedCode |-> suggestedCode,
   created_at |-> createdAt]

\* uuidv4(): the primary keys a new message may get, in any order.
NewKeys == 21..(20 + 2 * MaxRuns)
FreeKeys == NewKeys \ {msgStore[i].id : i \in DOMAIN msgStore}

\* The millisecond of the last stored message (0 when there is none).
lastStamp ==
  IF msgStore = <<>> THEN 0
  ELSE CHOOSE t \in {msgStore[i].created_at : i \in DOMAIN msgStore} :
         \A i \in DOMAIN msgStore : msgStore[i].created_at <= t

\* A final sync that replaces the buffer whatever the loop ended with.
setsCodeAlways(compilationSuccess) == TRUE

\* Lines 189-191: if (compilationSuccess) setCode(currentPipelineCode)
setsCode(compilationSuccess) == compilationSuccess

\* Lines 189-223 up to the first await of the persistence: the final sync
\* of the source buffer, the AI turn, and createChat or updateChat or, with
\* an active chat and no metadata, saveMessage.
finalSync ==
  /\ run.pc = "finalSync"
  /\ code' = IF setsCode(run.compilationSuccess) THEN run.currentPipelineCode ELSE code
  /\ messages' = Append(messages, [role |-> "ai", kind |-> "result",
                                    suggestedCode |-> Some(run.currentPipelineCode),
                                    image |-> None])
  /\ run' = [run EXCEPT
               !.pc = IF run.activeChat = None THEN "createChat"
                      ELSE IF IsSome(run.modelMetadata) THEN "updateChat"
                      ELSE "saveUser",
               !.chatId = IF IsSome(run.activeChat) THEN Some(Get(run.activeChat).id)
                          ELSE None,
               !.codeSet = setsCode(run.compilationSuccess),
               !.aiMsgs = @ + 1]
  /\ UNCHANGED <<isCompiling, lastOutput, screenshot, isTyping, pipelineStatus,
                 uploadedImage, activeChat, enableVisualQA, shotTimer>>
  /\ UNCHANGED <<runsStarted, load, svcVars, ai, scadVars, dbVars>>

\* modelMetadata?.name || "New Design"
chatName(modelMetadata) ==
  IF IsSome(modelMetadata) /\ IsSome(Get(modelMetadata).name)
    THEN Get(modelMetadata).name ELSE Some("New Design")

\* Lines 212-216: createChat (LocalDBService lines 76-93) has resolved with
\* the new chat, or it has rejected on a storage failure.
createChatDone(ok) ==
  /\ run.pc = "createChat"
  /\ del.pc = "idle"
  /\ IF ok
       THEN LET chat == [id |-> nextId, name |-> chatName(run.modelMetadata),
                         description |-> Some(run.prompt)]
            IN /\ chatStore' = chatStore \cup {chat}
               /\ nextId' = nextId + 1
               /\ activeChat' = Some(chat)
               /\ run' = [run EXCEPT !.pc = "saveUser", !.chatId = Some(chat.id)]
       ELSE /\ run' = [run EXCEPT !.pc = "catch", !.threw = TRUE, !.dbFailed = TRUE]
            /\ UNCHANGED <<chatStore, nextId, activeChat>>
  /\ UNCHANGED msgStore
  /\ UNCHANGED <<code, isCompiling, lastOutput, screenshot, isTyping, pipelineStatus,
                 messages, uploadedImage, enableVisualQA, shotTimer>>
  /\ UNCHANGED <<runsStarted, load, svcVars, ai, scadVars>>

\* LocalDBService.updateChat, lines 95-110: { ...stored, ...updates }.
updateChat(chatId, updates) ==
  {IF chat.id = chatId
     THEN [chat EXCEPT !.name = updates.name, !.description = updates.description]
     ELSE chat : chat \in chatStore}

\* Lines 219-222: updateChat has resolved or rejected.  The metadata of a
\* model reply holds a name and no description.  For a chat that is no
\* longer stored, put is handed a record without its key and throws inside
\* the handler of the get request: the promise never settles.
updateChatDone(ok) ==
  /\ run.pc = "updateChat"
  /\ del.pc = "idle"
  /\ \E chat \in chatStore : chat.id = Get(run.chatId)
  /\ IF ok
       THEN /\ chatStore' = updateChat(Get(run.chatId),
                               [name |-> Get(run.modelMetadata).name,
                                description |-> None])
            /\ run' = [run EXCEPT !.pc = "saveUser"]
       ELSE /\ run' = [run EXCEPT !.pc = "catch", !.threw = TRUE, !.dbFailed = TRUE]
            /\ UNCHANGED chatStore
  /\ UNCHANGED <<msgStore, nextId>>
  /\ UNCHANGED <<appVars, runsStarted, load, svcVars, ai, scadVars>>

\* Line 227: the user's message is stored, or saveMessage has rejected.
\* Its created_at is the time of the call, later than every stored message.
saveUserDone(ok) ==
  /\ run.pc = "saveUser"
  /\ del.pc = "idle"
  /\ IF ok
       THEN /\ \E id \in FreeKeys :
                 msgStore' = Append(msgStore,
                   StoredMessage(id, Get(run.chatId), "user", None, lastStamp + 1))
            /\ run' = [run EXCEPT !.pc = "saveAi"]
       ELSE /\ run' = [run EXCEPT !.pc = "catch", !.threw = TRUE, !.dbFailed = TRUE]
            /\ UNCHANGED msgStore
  /\ UNCHANGED <<chatStore, nextId>>
  /\ UNCHANGED <<appVars, runsStarted, load, svcVars, ai, scadVars>>

\* Lines 228-232: the AI message is stored, or saveMessage has rejected.
\* Its created_at is the time of its call, right after the user's message
\* was stored: the same millisecond of the clock or a later one.
saveAiDone(ok) ==
  /\ run.pc = "saveAi"
  /\ del.pc = "idle"
  /\ IF ok
       THEN /\ \E id \in FreeKeys : \E createdAt \in {lastStamp, lastStamp + 1} :
                 msgStore' = Append(msgStore,
                   StoredMessage(id, Get(run.chatId), "ai",
                                 Some(run.currentPipelineCode), createdAt))
            /\ run' = [run EXCEPT !.pc = "finally"]
       ELSE /\ run' = [run EXCEPT !.pc = "catch", !.threw = TRUE, !.dbFailed = TRUE]
            /\ UNCHANGED msgStore
  /\ UNCHANGED <<chatStore, nextId>>
  /\ UNCHANGED <<appVars, runsStarted, load, svcVars, ai, scadVars>>

\* Lines 235-237: the catch of runPipeline appends the apology.
catchStep ==
  /\ run.pc = "catch"
  /\ messages' = Append(messages, [role |-> "ai", kind |-> "apology",
                                    suggestedCode |-> None, image |-> None])
  /\ run' = [run EXCEPT !.pc = "finally", !.aiMsgs = @ + 1]
  /\ UNCHANGED <<code, isCompiling, lastOutput, screenshot, isTyping, pipelineStatus,
                 uploadedImage, activeChat, enableVisualQA, shotTimer>>
  /\ UNCHANGED <<runsStarted, load, svcVars, ai, scadVars, dbVars>>

\* A run that clears its indicator at the end of the try block only, so
\* that a run ended by the catch leaves it set.
finallyStepAfterTryOnly ==
  /\ run.pc = "finally"
  /\ isTyping' = run.threw
  /\ pipelineStatus' = IF run.threw THEN pipelineStatus ELSE ""
  /\ run' = IdleRun
  /\ UNCHANGED <<code, isCompiling, lastOutput, screenshot, messages,
                 uploadedImage, activeChat, enableVisualQA, shotTimer>>
  /\ UNCHANGED <<runsStarted, load, svcVars, ai, scadVars, dbVars>>

\* Lines 238-241: the finally of runPipeline; the run returns.
finallyStep ==
  /\ run.pc = "finally"
  /\ isTyping' = FALSE
  /\ pipelineStatus' = ""
  /\ run' = IdleRun
  /\ UNCHANGED <<code, isCompiling, lastOutput, screenshot, messages,
                 uploadedImage, activeChat, enableVisualQA, shotTimer>>
  /\ UNCHANGED <<runsStarted, load, svcVars, ai, scadVars, dbVars>>

\* ------------------------------------------------------------ specification

\* The user edits the source and compiles it by hand.
NextCompile ==
  \/ \E text \in Sources : editCode(text)
  \/ handleGenerate
  \/ handleGenerateDone
  \/ screenshotTimer
  \/ initDone("manual")
  \/ initFail("manual")

SpecCompile == Init /\ [][NextCompile]_vars

\* The stores of a user with no, one or two designs of earlier sessions.
InitDB ==
  /\ InitProgram
  /\ \/ chatStore = {} /\ msgStore = <<>>
     \/ chatStore = {OldChat} /\ msgStore = OldMessages
     \/ chatStore = {OldChat, OtherChat} /\ msgStore = TwoChatMessages
  /\ knowledge = {}
  /\ NoLogs

\* The user opens and deletes stored designs.
NextDB ==
  \/ \E chat \in chatStore : loadChat(chat)
  \/ \E ok \in BOOLEAN : loadChatDone(ok)
  \/ \E chat \in chatStore : deleteChatHistory(chat.id)
  \/ deleteCursor
  \/ deleteComplete
  \/ deleteError

SpecDB == InitDB /\ [][NextDB]_vars

\* The knowledge base and its sync: the store is empty or holds the chunk of
\* an earlier sync.
InitSync ==
  /\ InitProgram
  /\ chatStore = {} /\ msgStore = <<>>
  /\ knowledge \in {{}, {OldChunk}}
  /\ NoLogs

NextSync ==
  \/ handleSyncRAG
  \/ \E reply \in IndexReplies : fetchIndexDone(reply)
  \/ \E ok \in BOOLEAN : clearKnowledgeDone(ok)
  \/ \E ok \in BOOLEAN : saveKnowledgeChunkDone(ok)
  \/ syncFinally

SpecSync == InitSync /\ [][NextSync]_vars

\* The logging service: at startup the ring is empty, or loadFromStorage
\* (lines 111-120) has restored it from the snapshot of an earlier session.
InitLog ==
  /\ InitProgram
  /\ chatStore = {} /\ msgStore = <<>>
  /\ knowledge = {}
  /\ \/ NoLogs
     \/ /\ logs = <<1, 2>>
        /\ appLogs = Some(<<1, 2>>)
        /\ logStats = [calls |-> 2, savedAt |-> 2, failures |-> 0]
        /\ classify = NoClassify
        /\ check = NoCheck
        /\ rag = IdleSearch
        /\ resize = IdleResize
        /\ apply = IdleApply

NextLog ==
  \/ \E stored \in BOOLEAN : log(stored)
  \/ clearLogs

SpecLog == InitLog /\ [][NextLog]_vars

\* The classifier on its own: the logs are absent, empty, or of up to
\* MaxLogLines lines.
MaxLogLines == 2
LogLines ==
  {SyntaxLine, CgalLine, EmptyTopLine, HandleLine, NonManifoldLine, NonManifoldCapLine,
   UpperManifoldLine, ParseLine, UndefinedLine, UnknownLine, IncludeLine, NoFileLine,
   ScalingLine, ExtrusionLine, SyntaxUnknownLine, PlainLine}
ErrorLogs ==
  {None, Some(<<>>)}
    \cup {Some(t) : t \in UNION {[1..n -> LogLines] : n \in 1..MaxLogLines}}

InitClassify ==
  /\ InitProgram
  /\ rag = IdleSearch
  /\ resize = IdleResize
  /\ apply = IdleApply
  /\ chatStore = {} /\ msgStore = <<>>
  /\ knowledge = {}
  /\ logs = <<>> /\ appLogs = None
  /\ logStats = [calls |-> 0, savedAt |-> 0, failures |-> 0]
  /\ check = NoCheck
  /\ classify \in {[NoClassify EXCEPT !.pc = "call", !.errorLog = errorLog] :
                     errorLog \in ErrorLogs}

categorize ==
  /\ classify.pc = "call"
  /\ classify' = [classify EXCEPT !.pc = "returned",
                     !.kind = categorizeErrorOf(classify.errorLog),
                     !.kindSimple = categorizeErrorSimpleOf(classify.errorLog)]
  /\ UNCHANGED <<appVars, run, runsStarted, load, ai, scadVars, dbVars>>
  /\ UNCHANGED <<del, lastDb, knowledge, isIndexing, sync, logs, appLogs, logStats, check>>
  /\ UNCHANGED libVars

NextClassify == categorize

SpecClassify == InitClassify /\ [][NextClassify]_vars

\* The validator on its own.  A source is a list of fragments laid out over
\* lines: Layout(tokens, breaks) starts a new line after every position in
\* breaks.
RECURSIVE LayoutFrom(_, _, _, _, _)
LayoutFrom(tokens, breaks, i, line, done) ==
  IF i > Len(tokens) THEN Append(done, line)
  ELSE IF i \in breaks
    THEN LayoutFrom(tokens, breaks, i + 1, <<>>, Append(done, Append(line, tokens[i])))
    ELSE LayoutFrom(tokens, breaks, i + 1, Append(line, tokens[i]), done)
Layout(tokens, breaks) ==
  LayoutFrom(tokens, breaks \cap (1..(Len(tokens) - 1)), 1, <<>>, <<>>)
Layouts(tokens) == {Layout(tokens, breaks) : breaks \in SUBSET (1..(Len(tokens) - 1))}

\* The fragments of a source in reading order.
RECURSIVE TokensOf(_)
TokensOf(source) ==
  IF source = <<>> THEN <<>> ELSE Head(source) \o TokensOf(Tail(source))

\* The body of the test case 'Missing epsilon in difference' (part_000
\* lines 70-73), alone and after an assignment to eps, to steps, and to
\* eps in exponent notation; and the negative case with eps defined and used.
MissingEpsTokens ==
  <<"difference() {", "cube(10);", "translate([0,0,10])", "cube(10);", "}">>
EpsUsedTokens ==
  <<"eps = 0.01;", "difference() {", "cube(10);", "translate([0,0,-eps])", "cube(10);", "}">>

\* The test case 'Deep nesting' (part_000 lines 66-69): four nested blocks;
\* three nested blocks; and four operations without braces in one block.
DeepTokens ==
  <<"difference() {", "union() {", "difference() {", "union() {", "cube(10);",
    "}", "}", "}", "}">>
ThreeDeepTokens ==
  <<"difference() {", "union() {", "intersection() {", "cube(10);", "}", "}", "}">>
FlatTokens ==
  <<"union() {", "union() cube(10);", "union() cube(10);", "union() cube(10);",
    "union() cube(10);", "}">>

ValidatorSources ==
  Layouts(MissingEpsTokens) \cup Layouts(EpsUsedTokens)
    \cup Layouts(<<"steps = 5;">> \o MissingEpsTokens)
    \cup Layouts(<<"eps = 1e-2;">> \o MissingEpsTokens)
    \cup Layouts(DeepTokens) \cup Layouts(ThreeDeepTokens) \cup Layouts(FlatTokens)
    \cup Sources

InitValidate ==
  /\ InitProgram
  /\ rag = IdleSearch
  /\ resize = IdleResize
  /\ apply = IdleApply
  /\ chatStore = {} /\ msgStore = <<>>
  /\ knowledge = {}
  /\ logs = <<>> /\ appLogs = None
  /\ logStats = [calls |-> 0, savedAt |-> 0, failures |-> 0]
  /\ classify = NoClassify
  /\ check \in {[NoCheck EXCEPT !.pc = "call", !.code = source] :
                  source \in ValidatorSources}

validateCall ==
  /\ check.pc = "call"
  /\ check' = [check EXCEPT !.pc = "returned", !.result = validate(check.code)]
  /\ UNCHANGED <<appVars, run, runsStarted, load, ai, scadVars, dbVars>>
  /\ UNCHANGED <<del, lastDb, knowledge, isIndexing, sync, logs, appLogs, logStats,
                 classify>>
  /\ UNCHANGED libVars

NextValidate == validateCall

SpecValidate == InitValidate /\ [][NextValidate]_vars

\* The retrieval on its own, over every knowledge store of up to five
\* chunks: two in the same direction, one across, one opposite, and one
\* with the zero vector.
SearchChunks ==
  { OldChunk,
    [id |-> 42, content |-> "cyl", source |-> "shapes3d.scad", embedding |-> <<2, 0>>],
    [id |-> 43, content |-> "diff", source |-> "unknown", embedding |-> <<0, 1>>],
    [id |-> 44, content |-> "tube", source |-> "shapes3d.scad", embedding |-> <<-1, 0>>],
    [id |-> 45, content |-> "", source |-> "unknown", embedding |-> <<0, 0>>] }

InitSearch ==
  /\ InitProgram
  /\ chatStore = {} /\ msgStore = <<>>
  /\ NoLogs
  /\ knowledge \in SUBSET SearchChunks

NextSearch ==
  \/ \E topK \in 0..MaxTopK : search(topK)
  \/ \E embedding \in QueryEmbeddings : getEmbeddingDone(embedding)
  \/ \E ok \in BOOLEAN : getAllKnowledgeDone(ok)

SpecSearch == InitSearch /\ [][NextSearch]_vars

\* The resize on its own, over every image and every pair of maxima with
\* sides up to MaxSide.
InitResize ==
  /\ InitProgram
  /\ chatStore = {} /\ msgStore = <<>>
  /\ knowledge = {}
  /\ logs = <<>> /\ appLogs = None
  /\ logStats = [calls |-> 0, savedAt |-> 0, failures |-> 0]
  /\ classify = NoClassify /\ check = NoCheck /\ rag = IdleSearch
  /\ apply = IdleApply
  /\ resize \in {[IdleResize EXCEPT !.pc = "loaded", !.imgWidth = w, !.imgHeight = h,
                                    !.maxWidth = mw, !.maxHeight = mh] :
                   w \in 1..MaxSide, h \in 1..MaxSide, mw \in 1..MaxSide, mh \in 1..MaxSide}

NextResize == resizeImage

SpecResize == InitResize /\ [][NextResize]_vars

\* The user attaches drawings and sends messages; each runs the pipeline.
Next ==
  \/ handleImageSelect
  \/ handleRemoveImage
  \/ \E chat \in chatStore : loadChat(chat)
  \/ \E ok \in BOOLEAN : loadChatDone(ok)
  \/ \E text \in Inputs : handleSendMessage(text)
  \/ \E reply \in ReasoningReplies : reasonReply(reply)
  \/ \E reply \in LintReplies : lintReply(reply)
  \/ initDone("pipeline")
  \/ initFail("pipeline")
  \/ afterGenerate
  \/ loopHead
  \/ afterCompile
  \/ afterFix
  \/ afterLoop
  \/ settleDone
  \/ \E text \in VisualReplies : afterVisual(text)
  \/ finalSync
  \/ \E ok \in BOOLEAN : createChatDone(ok)
  \/ \E ok \in BOOLEAN : updateChatDone(ok)
  \/ \E ok \in BOOLEAN : saveUserDone(ok)
  \/ \E ok \in BOOLEAN : saveAiDone(ok)
  \/ catchStep
  \/ finallyStep

Spec == Init /\ [][Next]_vars

\* ------------------------------------------------------------------ claims

\* The run is past its compilation loop.
LoopEnded == run.pc \in {"afterLoop", "settle", "visual", "finalSync", "createChat",
                          "updateChat", "saveUser", "saveAi", "finally"}

\* C1: a run never calls compile a 4th time; and a run whose every compile
\* call returned an error and whose every fix call returned code has, once
\* its loop has ended and when it ends, called compile exactly 3 times and
\* holds the success flag false.
C1_ThreeCompilesThenFailure ==
  /\ run.compiles <= 3
  /\ (LoopEnded /\ run.compileErrors = run.compiles /\ ~run.fixGaveUp)
       => (run.compiles = 3 /\ run.fixes = 3 /\ ~run.compilationSuccess)

C1_Witness ==
  /\ run.pc = "finally"
  /\ ~run.threw
  /\ run.compiles = 3 /\ run.compileErrors = 3 /\ ~run.fixGaveUp
  /\ ~run.compilationSuccess

\* C2: once a fix call of a run has returned no code, that run makes no
\* further compile call and no further fix call, and it stops at once: the
\* step that takes the empty fix leaves the loop.
C2_NoCodeStopsTheLoop ==
  [][ /\ (run.fixGaveUp /\ run'.pc # "idle")
          => (run'.compiles = run.compiles /\ run'.fixes = run.fixes)
      /\ (~run.fixGaveUp /\ run'.fixGaveUp) => run'.pc = "afterLoop" ]_vars

C2_Witness ==
  /\ run.pc = "finally"
  /\ run.fixGaveUp
  /\ run.attempts = 1 /\ run.compiles = 1 /\ run.fixes = 1

\* C3: after every compile call that ran the compiler the dirty flag is
\* set, and no compiler instance runs the compiler a second time.
C3_DirtyAfterEveryRun ==
  \A c \in Callers :
    (compileCall[c].pc = "returned" /\ compileCall[c].invoked)
      => (isDirty /\ ~compileCall[c].reused)

\* C4: compile never raises to its caller.
C4_CompileNeverRaises ==
  \A c \in Callers : compileCall[c].pc # "threw"

\* C5: a run ends only from its finally block, and the step that ends it
\* leaves the typing indicator cleared and the status text empty, whether
\* it ended by the try block or by the catch; the failure of a step goes to
\* the catch, never to the caller.
C5_RunEndsCleared ==
  [][ /\ (run.pc # "idle" /\ run'.pc = "idle")
          => (run.pc = "finally" /\ isTyping' = FALSE /\ pipelineStatus' = "")
      /\ (~run.threw /\ run'.threw) => run'.pc = "catch" ]_vars

C5_Witness ==
  /\ runsStarted >= 1
  /\ run.pc = "idle"
  /\ Len(messages) > 0
  /\ messages[Len(messages)].kind = "apology"
  /\ ~isTyping /\ pipelineStatus = ""

C7_RequestCarriesDrawing ==
  (run.pc # "idle" /\ IsSome(run.imageData)) => Get(run.imageData) \in run.genImages

\* C8: when the lint call of Generate fails in transport or its reply is
\* unparseable or not of the shape {valid: true} or {valid: false, error},
\* Generate returns the response of the model and calls no Fix.
C8_LintFailsOpen ==
  (ai.op = "generate" /\ ai.pc = "done"
     /\ ai.genLint \in {"transportError", "unparseable", "malformed"})
    => (ai.result = ai.genResponse /\ ai.fixCalls = 0)

\* C9: a Generate call makes at most one Fix call, 2 requests to the
\* reasoning model and 2 lint requests; a Fix call makes one request to the
\* reasoning model and at most one lint request, and while it runs no
\* Generate and no further Fix is called; and every reply that does not end
\* the call is answered by a new request, so that the call ends after at
\* most 4 replies.
C9_RequestCounts ==
  /\ ai.op = "generate"
       => (ai.fixCalls <= 1 /\ ai.reasoningCalls <= 2 /\ ai.lintCalls <= 2)
  /\ ai.op = "fix"
       => (ai.fixCalls = 1 /\ ai.reasoningCalls = 1 /\ ai.lintCalls <= 1)

C9_BoundedRequests ==
  /\ []C9_RequestCounts
  /\ [][ /\ (ai.fn = "fixCode" /\ ai'.fn # "none")
              => (ai'.fn = "fixCode" /\ ai'.fixCalls = ai.fixCalls)
         /\ (ai.pc \in {"reason", "lint"} /\ ai' # ai)
              => (\/ ai'.pc = "done"
                  \/ ai'.reasoningCalls + ai'.lintCalls
                       > ai.reasoningCalls + ai.lintCalls) ]_vars

C9_Witness ==
  /\ ai.op = "generate" /\ ai.pc = "done"
  /\ ai.fixCalls = 1 /\ ai.reasoningCalls = 2 /\ ai.lintCalls = 2

\* C10: a compile call that gets past init runs the compiler unless the
\* write of the source fails, whatever validate says of the source; its
\* result holds a mesh exactly when the compiler exits with status 0 and
\* the mesh is read, and an error otherwise; and two sources, one valid and
\* one not, get results that differ at most in the mesh and in
\* validationWarnings.
C10_ValidationIsAdvisory ==
  /\ \A c \in Callers :
       compileCall[c].pc = "returned" =>
         LET call == compileCall[c]
         IN /\ call.invoked <=> call.outcome.kind # "writeFail"
            /\ IsSome(call.result.stlData) <=> call.outcome.kind = "exit0"
            /\ HasError(call.result) <=> call.outcome.kind # "exit0"
            /\ IsSome(call.result.validationWarnings)
                 => Get(call.result.validationWarnings) = validate(call.src).warnings
  /\ \A s1, s2 \in Sources : \A o \in Outcomes :
       LET r1 == compileResult(s1, o)
           r2 == compileResult(s2, o)
       IN /\ IsSome(r1.stlData) <=> IsSome(r2.stlData)
          /\ r1.error = r2.error /\ r1.errorType = r2.errorType
          /\ r1.status = r2.status /\ r1.logs = r2.logs

C10_Witness ==
  \E c \in Callers :
    /\ compileCall[c].pc = "returned"
    /\ ~validate(compileCall[c].src).valid
    /\ compileCall[c].invoked
    /\ IsSome(compileCall[c].result.stlData)

\* C11: a run in which a persistence operation (createChat, updateChat,
\* saveMessage) failed ends with the one message of its AI turn as the last
\* of the transcript: the failure has added no message.
C11_PersistenceFailureSilent ==
  (run.pc = "finally" /\ run.dbFailed)
    => (run.aiMsgs = 1 /\ messages[Len(messages)].kind = "result")

\* C12: the step that completes deleteChat removes the chat and every
\* message whose chat_id is its id, and leaves every other chat and message
\* as they were, in their order; and while the transaction is in flight
\* the stores that the other operations read do not change.
C12_DeleteCascadesAtomically ==
  [][ /\ (del.pc = "complete" /\ del'.pc = "idle" /\ lastDb'.settled = "resolved")
          => /\ chatStore' = {chat \in chatStore : chat.id # del.chatId}
             /\ msgStore' = SelectSeq(msgStore, LAMBDA m : m.chat_id # del.chatId)
      /\ (del'.pc # "idle" \/ lastDb'.settled = "rejected")
          => (chatStore' = chatStore /\ msgStore' = msgStore) ]_vars

C12_Witness ==
  /\ lastDb = settle("deleteChat", TRUE)
  /\ del.pc = "idle"
  /\ chatStore = {OtherChat}
  /\ msgStore = OtherMessages

\* C13: every operation of LocalDBService that has settled has resolved,
\* never rejected, on a storage failure too.
C13_OperationsResolve ==
  lastDb.op # "none" => lastDb.settled = "resolved"

\* The place of a stored message in the listing of its chat.
PlaceOf(m) ==
  LET listing == getMessages(m.chat_id)
  IN CHOOSE k \in DOMAIN listing : listing[k] = m

\* C14: a run that ends with no storage failure has stored exactly two
\* new messages, the user's and then the AI's, both of its chat, which is
\* in the store; and the listing of the chat gives the user's message
\* before the AI's.
C14_BothMessagesStoredInOrder ==
  (run.pc = "finally" /\ ~run.threw) =>
    LET n == Len(msgStore)
    IN /\ n = run.msgsBefore + 2
       /\ \E chat \in chatStore : Some(chat.id) = run.chatId
       /\ msgStore[n - 1].role = "user" /\ Some(msgStore[n - 1].chat_id) = run.chatId
       /\ msgStore[n].role = "ai" /\ Some(msgStore[n].chat_id) = run.chatId
       /\ PlaceOf(msgStore[n - 1]) < PlaceOf(msgStore[n])

\* C15: a run asks for visual analysis at most once, only after its loop
\* has ended, with a compile that returned a mesh and with visual QA
\* enabled; the step that takes the verdict changes neither the source
\* buffer, the mesh, the success flag nor the candidate; and a run that
\* asked ends with the buffer set to its candidate and with the mesh of
\* the candidate, whatever the verdict was.
C15_AskedAfterSuccess ==
  /\ run.visualCalls <= 1
  /\ run.visualCalls = 1
       => /\ LoopEnded \/ run.pc = "catch"
          /\ run.compilationSuccess /\ run.meshSeen /\ run.visualQA
  /\ (run.visualCalls = 1 /\ run.pc = "finally")
       => /\ run.codeSet /\ code = run.currentPipelineCode
          /\ lastOutput = Some(run.currentPipelineCode)

C15_VisualQAIsAdvisory ==
  /\ []C15_AskedAfterSuccess
  /\ [][ run.pc = "visual"
           => /\ run'.pc = "finalSync"
              /\ code' = code /\ lastOutput' = lastOutput
              /\ run'.compilationSuccess = run.compilationSuccess
              /\ run'.currentPipelineCode = run.currentPipelineCode ]_vars

C15_Witness ==
  /\ run.pc = "finally"
  /\ run.visualCalls = 1
  /\ run.finalExplanation[2] = "(Visual QA noted some issues)"
  /\ run.codeSet /\ code = run.currentPipelineCode

\* C16: the knowledge store changes only in a sync whose fetch and parse
\* have succeeded; a sync whose fetch or parse failed ends with the store
\* it started with; and a sync that ends without failure leaves exactly one
\* chunk per record of the index file and no chunk held before.
ChunksLike(item) ==
  {c \in knowledge : /\ c.content = item.content
                     /\ c.source = IF IsSome(item.source) THEN Get(item.source)
                                   ELSE "unknown"}

C16_SyncEnd ==
  sync.pc = "finally" =>
    /\ ~sync.fetched => (sync.failed /\ knowledge = sync.before)
    /\ ~sync.failed =>
         /\ Cardinality(knowledge) = Len(sync.items)
         /\ \A i \in DOMAIN sync.items :
              Cardinality(ChunksLike(sync.items[i])) =
                Cardinality({j \in DOMAIN sync.items : sync.items[j] = sync.items[i]})
         /\ \A c \in knowledge : \A old \in sync.before : c.id # old.id

C16_SyncReplacesStore ==
  /\ []C16_SyncEnd
  /\ [][ knowledge' # knowledge => (sync.fetched /\ sync.pc \in {"clear", "save"}) ]_vars

C16_Witness ==
  /\ sync.pc = "finally" /\ ~sync.failed
  /\ sync.before = {OldChunk}
  /\ Cardinality(knowledge) = 3

C16_WitnessFailedFetch ==
  /\ sync.pc = "finally" /\ ~sync.fetched
  /\ knowledge = {OldChunk}

\* The entries numbered m-k+1 .. m, in that order.
Latest(m, k) == [i \in 1..k |-> m - k + i]

\* The ring holds at most maxLogs entries, the most recent ones in call
\* order; after clearLogs it is empty.
RingHoldsLatest ==
  /\ Len(logs) <= maxLogs
  /\ logs = Latest(logStats.calls, Min(maxLogs, logStats.calls))

\* C17 as stated: after any sequence of log and clear calls the ring holds
\* the most recent entries, at most 1000, and the snapshot holds the most
\* recent min(100, ring size) entries of the ring (none when removed).
C17_SnapshotFollowsRing ==
  /\ RingHoldsLatest
  /\ (IF IsSome(appLogs) THEN Get(appLogs) ELSE <<>>) = slice(logs, snapshotSize)

\* C17, amended: the ring holds the most recent entries, at most 1000, in
\* call order; the snapshot holds the most recent min(100, ring size)
\* entries of the ring as it was after the last log call whose setItem did
\* not throw, which is the present ring when the last call's did not; and
\* after clear (or before any stored call) the ring is what was logged
\* since and the snapshot is absent.
C17_SnapshotFollowsLastSave ==
  /\ RingHoldsLatest
  /\ logStats.savedAt <= logStats.calls
  /\ appLogs = IF logStats.savedAt = 0 THEN None
               ELSE Some(Latest(logStats.savedAt, Min(snapshotSize, logStats.savedAt)))
  /\ logStats.savedAt = logStats.calls =>
       (IF IsSome(appLogs) THEN Get(appLogs) ELSE <<>>) = slice(logs, snapshotSize)

C17_Witness ==
  /\ logStats.calls = maxLogs + 2
  /\ Len(logs) = maxLogs /\ logs[1] = 3
  /\ logStats.savedAt = logStats.calls
  /\ Len(Get(appLogs)) = snapshotSize

\* The groups of trigger phrases in the order of the claim.
ErrorGroups ==
  << [kind |-> "CGAL_ASSERTION_VIOLATION",
      phrases |-> {"CGAL error: assertion violation", "e_below != SHalfedge_handle()"}],
     [kind |-> "EMPTY_GEOMETRY", phrases |-> {"Current top level object is empty"}],
     [kind |-> "NON_MANIFOLD", phrases |-> {"non-manifold", "Non-manifold"}],
     [kind |-> "SYNTAX_ERROR", phrases |-> {"syntax error", "Parse error"}],
     [kind |-> "UNDEFINED_VARIABLE", phrases |-> {"undefined variable", "unknown variable"}],
     [kind |-> "FILE_NOT_FOUND", phrases |-> {"Can't open include file", "No such file"}],
     [kind |-> "DIMENSIONALITY_MIXING",
      phrases |-> {"Scaling a 2D object with 0", "Empty extrusion"}] >>

\* The kind of the first of the first n groups with a phrase in the log,
\* GENERAL_ERROR when there is none, UNKNOWN for an empty or absent log.
FirstKind(errorLog, n) ==
  IF ~IsSome(errorLog) \/ Get(errorLog) = <<>> THEN "UNKNOWN"
  ELSE LET hits == {g \in 1..n : \E i \in DOMAIN Get(errorLog) :
                                    PhrasesOf(Get(errorLog)[i]) \cap ErrorGroups[g].phrases # {}}
       IN IF hits = {} THEN "GENERAL_ERROR"
          ELSE ErrorGroups[CHOOSE g \in hits : \A h \in hits : g <= h].kind

\* C18 as stated: the classifier (of either file) returns the kind of the
\* first of the seven groups whose phrase occurs in the log, GENERAL_ERROR
\* when none occurs, and UNKNOWN for an empty or absent log.
C18_FirstOfSevenGroups ==
  classify.pc = "returned" =>
    /\ classify.kind = FirstKind(classify.errorLog, 7)
    /\ classify.kindSimple = FirstKind(classify.errorLog, 7)

\* C18, amended: that holds of the classifier of SupabaseService.js; the
\* classifier of the other file knows the first six groups only, and
\* returns GENERAL_ERROR for a log whose only phrases are of
\* DIMENSIONALITY_MIXING.
C18_FirstMatchWins ==
  classify.pc = "returned" =>
    /\ classify.kind = FirstKind(classify.errorLog, 7)
    /\ classify.kindSimple = FirstKind(classify.errorLog, 6)

C18_Witness ==
  /\ classify.pc = "returned"
  /\ classify.errorLog = Some(<<ExtrusionLine, SyntaxUnknownLine>>)
  /\ classify.kind = "SYNTAX_ERROR"

\* What the source says, apart from how the validator reads it: the
\* fragments that open a difference block, and those that assign a number
\* to the variable eps.
DifferenceBlockFragments == {"difference() {"}
EpsAssignmentFragments == {"eps = 0.01;", "eps = 1e-2;"}

\* C19: validate returns valid = false exactly when the source has a
\* difference block and no assignment to a variable named eps, and then
\* errors is exactly one MISSING_EPSILON_DEFINITION; for every other source
\* valid = true and errors is empty.
C19_InvalidIffDifferenceWithoutEps ==
  check.pc = "returned" =>
    IF /\ Matches(check.code, DifferenceBlockFragments)
       /\ ~Matches(check.code, EpsAssignmentFragments)
      THEN /\ check.result.valid = FALSE
           /\ check.result.errors = <<"MISSING_EPSILON_DEFINITION">>
      ELSE /\ check.result.valid = TRUE
           /\ check.result.errors = <<>>

\* The deepest nesting of boolean-operation blocks in a list of fragments:
\* a block opens at its operation and closes at its brace; an operation
\* without braces is a block of its one statement.
BlockOpenFragments == {"difference() {", "union() {", "intersection() {"}
BracelessFragments == {"union() cube(10);"}
RECURSIVE DeepestFrom(_, _, _, _)
DeepestFrom(tokens, i, cur, mx) ==
  IF i > Len(tokens) THEN mx
  ELSE IF tokens[i] \in BlockOpenFragments
    THEN DeepestFrom(tokens, i + 1, cur + 1, Max(mx, cur + 1))
  ELSE IF tokens[i] \in BracelessFragments
    THEN DeepestFrom(tokens, i + 1, cur, Max(mx, cur + 1))
  ELSE IF tokens[i] \in ClosingBraceFragments
    THEN DeepestFrom(tokens, i + 1, Max(0, cur - 1), mx)
  ELSE DeepestFrom(tokens, i + 1, cur, mx)
Deepest(source) == DeepestFrom(TokensOf(source), 1, 0, 0)

Reports(result, kind) == \E i \in DOMAIN result.warnings : result.warnings[i] = kind

\* C20: however the blocks are laid out over lines, validate reports
\* DEEP_BOOLEAN_NESTING when 4 boolean-operation blocks are nested, and
\* does not report it when the nesting is at most 3 at every point.
C20_DeepNestingWhateverLayout ==
  check.pc = "returned" =>
    /\ Deepest(check.code) >= 4 => Reports(check.result, "DEEP_BOOLEAN_NESTING")
    /\ Deepest(check.code) <= MaxNestingDepth
         => ~Reports(check.result, "DEEP_BOOLEAN_NESTING")

\* The results are the min(topK, corpus size) stored chunks of highest
\* similarity, in descending order, each with its score.
TopKDescending ==
  LET results == rag.results
      scoreOf(c) == cosineSimilarity(Get(rag.queryEmbedding), c.embedding)
  IN /\ Len(results) = Min(rag.topK, Cardinality(knowledge))
     /\ \A i \in DOMAIN results :
          /\ results[i].chunk \in knowledge
          /\ results[i].similarity = scoreOf(results[i].chunk)
          /\ ~results[i].similarity.nan
          /\ \A j \in DOMAIN results : i < j =>
               /\ results[i].chunk.id # results[j].chunk.id
               /\ ~scoreOf(results[j].chunk).nan
               /\ ~Greater(results[j].similarity, results[i].similarity)
          /\ \A c \in knowledge :
               (\A j \in DOMAIN results : results[j].chunk.id # c.id)
                 => (~scoreOf(c).nan /\ ~Greater(scoreOf(c), results[i].similarity))

\* Every similarity is a number: the query embedding and every stored
\* embedding are non-zero vectors, none shorter than the query's.
AllScored ==
  /\ IsSome(rag.queryEmbedding)
  /\ \A c \in knowledge : ~cosineSimilarity(Get(rag.queryEmbedding), c.embedding).nan

\* C21 as stated: search returns the min(topK, corpus size) stored chunks
\* of highest similarity in descending order, each with its score; and an
\* empty list when the embedding of the query fails.
C21_TopKBySimilarity ==
  rag.pc = "returned" =>
    IF IsSome(rag.queryEmbedding) THEN TopKDescending ELSE rag.results = <<>>

\* C21, amended: that holds when every similarity is a number, that is
\* when the query embedding and every stored embedding are non-zero and no
\* stored embedding is shorter than the query's; an absent query embedding
\* gives the empty list.
C21_TopKWhenAllScored ==
  rag.pc = "returned" =>
    IF IsSome(rag.queryEmbedding) THEN (AllScored => TopKDescending)
    ELSE rag.results = <<>>

C21_Witness ==
  /\ rag.pc = "returned" /\ rag.topK = 1 /\ AllScored
  /\ Cardinality(knowledge) = 3
  /\ Len(rag.results) = 1 /\ rag.results[1].chunk.id = 43

\* C22: for every image size and every maxWidth and maxHeight, resize
\* yields a width of at most maxWidth and a height of at most maxHeight,
\* neither larger than the input's, in the input's aspect ratio; an image
\* within both maxima keeps its size.
C22_FitsBothMaxima ==
  resize.pc = "resolved" =>
    /\ Leq(resize.width, Ratio(resize.maxWidth, 1))
    /\ Leq(resize.height, Ratio(resize.maxHeight, 1))
    /\ Leq(resize.width, Ratio(resize.imgWidth, 1))
    /\ Leq(resize.height, Ratio(resize.imgHeight, 1))
    /\ resize.width.num * resize.height.den * resize.imgHeight
         = resize.height.num * resize.width.den * resize.imgWidth
    /\ (resize.imgWidth <= resize.maxWidth /\ resize.imgHeight <= resize.maxHeight)
         => /\ resize.width = Ratio(resize.imgWidth, 1)
            /\ resize.height = Ratio(resize.imgHeight, 1)

\* ------------------------------------------------------ App: Apply Code

\* How many Apply Code timers are pending at once.
MaxApplyTimers == 1

\* The Apply Code button of message i, line 448 (shown when the message has
\* suggestedCode): setCode(msg.suggestedCode) and setTimeout(handleGenerate,
\* 100).  The handleGenerate handed to the timer is the one of the render
\* that drew the button, whose code is the buffer of that render.
applyCode(i) ==
  /\ Suspended
  /\ i \in DOMAIN messages
  /\ IsSome(messages[i].suggestedCode)
  /\ Len(apply.timers) < MaxApplyTimers
  /\ code' = Get(messages[i].suggestedCode)
  /\ apply' = [apply EXCEPT !.timers =
                 Append(@, [code |-> code, suggestedCode |-> messages[i].suggestedCode])]
  /\ UNCHANGED <<isCompiling, lastOutput, screenshot, isTyping, pipelineStatus,
                 messages, uploadedImage, activeChat, enableVisualQA, shotTimer>>
  /\ UNCHANGED <<run, runsStarted, load, ai, scadVars, dbVars>>
  /\ UNCHANGED <<del, lastDb, knowledge, isIndexing, sync, logs, appLogs, logStats,
                 classify, check, rag, resize>>

\* The code of the closure the timer runs.
timerCode(timer) == timer.code

\* The timer of an Apply Code press fires: handleGenerate, lines 287-289, up
\* to the await of compile.  Nothing in it looks at isCompiling.  One call
\* of a timer at a time: the next timer fires once it has ended.
applyTimer ==
  /\ Suspended
  /\ apply.timers # <<>>
  /\ compileCall["apply"].pc = "idle"
  /\ isCompiling' = TRUE
  /\ compileStart("apply", timerCode(Head(apply.timers)))
  /\ apply' = [timers |-> Tail(apply.timers),
               pressed |-> Head(apply.timers).suggestedCode]
  /\ UNCHANGED <<code, lastOutput, screenshot, isTyping, pipelineStatus, messages,
                 uploadedImage, activeChat, enableVisualQA, shotTimer>>
  /\ UNCHANGED <<run, runsStarted, load, ai, dbVars>>
  /\ UNCHANGED <<del, lastDb, knowledge, isIndexing, sync, logs, appLogs, logStats,
                 classify, check, rag, resize>>

\* handleGenerate of a timer after the await: lines 291-301.
applyGenerateDone ==
  /\ Suspended
  /\ compileCall["apply"].pc \in {"returned", "threw"}
  /\ LET call == compileCall["apply"]
     IN /\ lastOutput' = IF call.pc = "returned" /\ IsSome(call.result.stlData)
                           THEN call.result.stlData ELSE lastOutput
        /\ shotTimer' = (shotTimer \/ call.pc = "returned")
  /\ isCompiling' = FALSE
  /\ compileCall' = [compileCall EXCEPT !["apply"] = IdleCall]
  /\ apply' = [apply EXCEPT !.pressed = None]
  /\ UNCHANGED <<code, screenshot, isTyping, pipelineStatus, messages,
                 uploadedImage, activeChat, enableVisualQA>>
  /\ UNCHANGED <<ready, isDirty, lastLogs, instanceRuns>>
  /\ UNCHANGED <<run, runsStarted, load, ai, dbVars>>
  /\ UNCHANGED <<del, lastDb, knowledge, isIndexing, sync, logs, appLogs, logStats,
                 classify, check, rag, resize>>

\* The user opens a stored design, edits the source, compiles it by hand
\* and presses Apply Code.
NextApply ==
  \/ \E chat \in chatStore : loadChat(chat)
  \/ \E ok \in BOOLEAN : loadChatDone(ok)
  \/ editCode(PlainCode)
  \/ handleGenerate
  \/ handleGenerateDone
  \/ \E i \in DOMAIN messages : applyCode(i)
  \/ applyTimer
  \/ applyGenerateDone
  \/ \E c \in {"manual", "apply"} : initDone(c)
  \/ \E c \in {"manual", "apply"} : initFail(c)

SpecApply == Init /\ [][NextApply]_vars

\* The compile calls suspended inside compile, at the await of init.
InFlight == {c \in Callers : compileCall[c].pc = "init"}

\* C23: under every interleaving of the actions that compile, at most one
\* compile call is in flight against the compilation service.
C23_OneCompileInFlight == Cardinality(InFlight) <= 1

\* C30: the compile that an Apply Code press triggers compiles the code of
\* the message whose button was pressed.
C30_CompilesAppliedCode ==
  compileCall["apply"].pc # "idle" => Some(compileCall["apply"].src) = apply.pressed

\* ------------------------------------------- sessions during a pipeline run

\* The replies of this specification: a JSON reply with code and a name, and
\* a text reply with code.
SessionReplies ==
  { Reply("json", Some("A box with a hole"), Some(EpsCode), Some("Box")),
    Reply("text", None, Some(EpsCode), None) }

InitSession ==
  /\ Init
  /\ ~enableVisualQA

\* The user sends a message and, while the run is in flight, opens and
\* deletes stored designs (a delete pressed while no transaction of the
\* run is pending).  The lint passes and the store does not fail.
NextSession ==
  \/ \E chat \in chatStore : loadChatCall(chat)
  \/ loadChatDone(TRUE)
  \/ \E chat \in chatStore : run.pc \notin DbPcs /\ deleteChatHistory(chat.id)
  \/ deleteCursor
  \/ deleteComplete
  \/ handleSendMessage("a box with a hole")
  \/ \E reply \in SessionReplies : reasonReply(reply)
  \/ lintReply(LintReply("json", LintValue(Some(TRUE), None)))
  \/ initDone("pipeline")
  \/ initFail("pipeline")
  \/ afterGenerate
  \/ loopHead
  \/ afterCompile
  \/ afterFix
  \/ afterLoop
  \/ finalSync
  \/ createChatDone(TRUE)
  \/ updateChatDone(TRUE)
  \/ saveUserDone(TRUE)
  \/ saveAiDone(TRUE)
  \/ catchStep
  \/ finallyStep

SpecSession == InitSession /\ [][NextSession]_vars

\* C24: the typing indicator stays set from the start of a pipeline run
\* until that run ends, so that send message, which returns at once while
\* it is set, starts no second run.
C24_TypingWhileRunInFlight == run.pc # "idle" => isTyping

\* C25: every stored message belongs to a stored session.
C25_NoOrphanMessages ==
  \A i \in DOMAIN msgStore : \E chat \in chatStore : chat.id = msgStore[i].chat_id

\* C26: no step replaces the stored name or description of a session by an
\* absent value: each of the two fields stays as it is or becomes a value
\* that is present.
C26_FieldsNeverAbsent ==
  [][\A chat \in chatStore : \A after \in chatStore' :
       after.id = chat.id =>
         /\ (after.name # chat.name => IsSome(after.name))
         /\ (after.description # chat.description => IsSome(after.description))]_vars

\* C27: the code of the AI turn that a pipeline run has persisted is code
\* that was passed to compile in that run.
C27_PersistedCodeWasCompiled ==
  (run.pc = "finally" /\ ~run.threw /\ msgStore # <<>>) =>
    \E compiledCode \in run.compiled :
      msgStore[Len(msgStore)].suggestedCode = Some(compiledCode)

\* C28: a pipeline run that has ended its try, catch and persistence has
\* appended exactly one AI message to the transcript.
C28_OneAiMessagePerRun == run.pc = "finally" => run.aiMsgs = 1

\* C29: every result that compile returns carries a mesh or an error, not
\* both and not neither; an error it carries is not the empty text, so the
\* test of the error field alone tells the two apart.
C29_MeshXorError ==
  \A c \in Callers :
    compileCall[c].pc = "returned" =>
      LET result == compileCall[c].result
      IN /\ IsSome(result.stlData) # IsSome(result.error)
         /\ IsSome(result.error) => ~TextEmpty(Get(result.error))
         /\ HasError(result) = ~IsSome(result.stlData)

\* A compile whose compiler exited with a non-zero status and printed
\* nothing has returned: its error is the default text.
C29_Witness ==
  /\ compileCall["manual"].pc = "returned"
  /\ compileCall["manual"].outcome = Outcome("exitNonZero", <<>>, <<>>)
  /\ compileCall["manual"].result.error = Some(<<"Unknown compilation error">>)
  /\ compileCall["manual"].result.stlData = None

====
